---- MODULE Spec2Model ----
(***************************************************************************)
(* Model of the analysis scripts of neo_cpp:                               *)
(*   scripts/check_duplicates.py                (DuplicateChecker)         *)
(*   scripts/check_implementation_duplicates.py                            *)
(*                                   (ImplementationDuplicateChecker)      *)
(*   analyze_test_coverage.py                   (TestCoverageAnalyzer)     *)
(*   scripts/check_unit_test_coverage.py        (UnitTestCoverageChecker)  *)
(* Each script is a batch run over a file system; a run is one action that *)
(* takes the inputs chosen by Init to the report the script returns.       *)
(* Text is a sequence of one-character strings, so that substring tests,   *)
(* str.replace and the regular expressions are computed character by       *)
(* character, as Python computes them.                                     *)
(***************************************************************************)
EXTENDS Integers, Sequences, FiniteSets, TLC

VARIABLES
    \* DuplicateChecker.calculate_similarity: the two contents, the result
    content1, content2, simPc, simResult,
    \* a name normalization, applied once and then to its own output
    normKind, normInput, normOnce, normTwice, normPc,
    \* TestCoverageAnalyzer: the reference and candidate test files in the
    \* order os.walk yields them (cs_exists: whether neo_csharp/tests
    \* exists), and the dictionary analyze_coverage returns
    cs_exists, csWalk, cppWalk, covPc, analysis,
    \* the duplicate checkers: the candidate source files and the build
    \* manifests in the order rglob yields them (src_exists: whether
    \* project_root/src exists), and the two reports
    src_exists, walk, manifests, dupPc, dupReport, implPc, implReport,
    \* UnitTestCoverageChecker: the test projects under neo_csharp/tests and
    \* the .cpp files under tests, in the order the directory scans yield
    \* them, the results and the exit code of run_coverage_check
    utProjects, utFiles, utPc, utResults, utExit,
    \* DuplicateChecker.find_duplicate_implementations and the function
    \* names of analyze_file_contents: the contents of the files read, the
    \* names extracted from each and the names reported as duplicates
    fnWalk, fnPc, fnFunctions, fnNames, fnDuplicates,
    \* ConversionValidator, run by main of validate_conversion.py: whether
    \* the directory neo exists, the files of the C# project neo and of the
    \* C++ project "." in the order the scans yield them, self.results and
    \* the results print_report has shown
    cvNeoExists, cvNeo, cvCpp, cvPc, cvResults, cvPrinted,
    \* analyze_coverage of scripts/analyze_test_coverage.py: the files under
    \* base_dir/tests in the order os.walk yields them, and the totals
    tcWalk, tcPc, tcTotals

simVars == <<content1, content2, simPc, simResult>>
normVars == <<normKind, normInput, normOnce, normTwice, normPc>>
covVars == <<cs_exists, csWalk, cppWalk, covPc, analysis>>
dupVars == <<src_exists, walk, manifests, dupPc, dupReport, implPc, implReport>>

utVars == <<utProjects, utFiles, utPc, utResults, utExit>>

fnVars == <<fnWalk, fnPc, fnFunctions, fnNames, fnDuplicates>>

cvVars == <<cvNeoExists, cvNeo, cvCpp, cvPc, cvResults, cvPrinted>>

tcVars == <<tcWalk, tcPc, tcTotals>>

vars == <<simVars, normVars, covVars, dupVars, utVars, fnVars, cvVars, tcVars>>

\* The string literals of the sources, spelled out character by character.
Lit ==
       ("_complete" :> <<"_", "c", "o", "m", "p", "l", "e", "t", "e">>)
    @@ ("_minimal" :> <<"_", "m", "i", "n", "i", "m", "a", "l">>)
    @@ ("_fixed" :> <<"_", "f", "i", "x", "e", "d">>)
    @@ ("_broken" :> <<"_", "b", "r", "o", "k", "e", "n">>)
    @@ ("_simple" :> <<"_", "s", "i", "m", "p", "l", "e">>)
    @@ ("_full" :> <<"_", "f", "u", "l", "l">>)
    @@ ("_impl" :> <<"_", "i", "m", "p", "l">>)
    @@ ("_test" :> <<"_", "t", "e", "s", "t">>)
    @@ ("_old" :> <<"_", "o", "l", "d">>)
    @@ ("_new" :> <<"_", "n", "e", "w">>)
    @@ ("_stubs" :> <<"_", "s", "t", "u", "b", "s">>)
    @@ ("_partial" :> <<"_", "p", "a", "r", "t", "i", "a", "l">>)
    @@ ("_standalone" :> <<"_", "s", "t", "a", "n", "d", "a", "l", "o", "n", "e">>)
    @@ ("_testnet" :> <<"_", "t", "e", "s", "t", "n", "e", "t">>)
    @@ ("_v" :> <<"_", "v">>)
    @@ ("build" :> <<"b", "u", "i", "l", "d">>)
    @@ ("test" :> <<"t", "e", "s", "t">>)
    @@ (".cpp" :> <<".", "c", "p", "p">>)
    @@ (".h" :> <<".", "h">>)
    @@ (".hpp" :> <<".", "h", "p", "p">>)
    @@ (".cs" :> <<".", "c", "s">>)
    @@ ("UT_" :> <<"U", "T", "_">>)
    @@ ("Test" :> <<"T", "e", "s", "t">>)
    @@ ("test_" :> <<"t", "e", "s", "t", "_">>)
    @@ ("neo_csharp" :> <<"n", "e", "o", "_", "c", "s", "h", "a", "r", "p">>)
    @@ ("src" :> <<"s", "r", "c">>)
    @@ ("include" :> <<"i", "n", "c", "l", "u", "d", "e">>)
    @@ ("neo_csharp/tests" :> <<"n", "e", "o", "_", "c", "s", "h", "a", "r", "p", "/", "t", "e", "s", "t", "s">>)
    @@ ("." :> <<".">>)
    @@ ("/" :> <<"/">>)
    @@ ("ut_" :> <<"u", "t", "_">>)
    @@ ("_" :> <<"_">>)
    @@ ("serialize" :> <<"s", "e", "r", "i", "a", "l", "i", "z", "e">>)
    @@ ("serializ" :> <<"s", "e", "r", "i", "a", "l", "i", "z">>)
    @@ ("deserialize" :> <<"d", "e", "s", "e", "r", "i", "a", "l", "i", "z", "e">>)
    @@ ("deserializ" :> <<"d", "e", "s", "e", "r", "i", "a", "l", "i", "z">>)
    @@ ("parse" :> <<"p", "a", "r", "s", "e">>)
    @@ ("pars" :> <<"p", "a", "r", "s">>)
    @@ ("tostring" :> <<"t", "o", "s", "t", "r", "i", "n", "g">>)
    @@ ("tohex" :> <<"t", "o", "h", "e", "x">>)
    @@ ("equals" :> <<"e", "q", "u", "a", "l", "s">>)
    @@ ("equal" :> <<"e", "q", "u", "a", "l">>)
    @@ ("compare" :> <<"c", "o", "m", "p", "a", "r", "e">>)
    @@ ("compar" :> <<"c", "o", "m", "p", "a", "r">>)
    @@ ("create" :> <<"c", "r", "e", "a", "t", "e">>)
    @@ ("creat" :> <<"c", "r", "e", "a", "t">>)
    @@ ("verify" :> <<"v", "e", "r", "i", "f", "y">>)
    @@ ("verif" :> <<"v", "e", "r", "i", "f">>)
    @@ ("sign" :> <<"s", "i", "g", "n">>)
    @@ ("hash" :> <<"h", "a", "s", "h">>)
    @@ ("encrypt" :> <<"e", "n", "c", "r", "y", "p", "t">>)
    @@ ("decrypt" :> <<"d", "e", "c", "r", "y", "p", "t">>)
    @@ ("cryptography" :> <<"c", "r", "y", "p", "t", "o", "g", "r", "a", "p", "h", "y">>)
    @@ ("io" :> <<"i", "o">>)
    @@ ("ledger" :> <<"l", "e", "d", "g", "e", "r">>)
    @@ ("blockchain" :> <<"b", "l", "o", "c", "k", "c", "h", "a", "i", "n">>)
    @@ ("network" :> <<"n", "e", "t", "w", "o", "r", "k">>)
    @@ ("p2p" :> <<"p", "2", "p">>)
    @@ ("persistence" :> <<"p", "e", "r", "s", "i", "s", "t", "e", "n", "c", "e">>)
    @@ ("storage" :> <<"s", "t", "o", "r", "a", "g", "e">>)
    @@ ("smartcontract" :> <<"s", "m", "a", "r", "t", "c", "o", "n", "t", "r", "a", "c", "t">>)
    @@ ("vm" :> <<"v", "m">>)
    @@ ("wallet" :> <<"w", "a", "l", "l", "e", "t">>)
    @@ ("consensus" :> <<"c", "o", "n", "s", "e", "n", "s", "u", "s">>)
    @@ ("native" :> <<"n", "a", "t", "i", "v", "e">>)
    @@ ("rpc" :> <<"r", "p", "c">>)
    @@ ("json" :> <<"j", "s", "o", "n">>)
    @@ ("extension" :> <<"e", "x", "t", "e", "n", "s", "i", "o", "n">>)
    @@ ("misc" :> <<"m", "i", "s", "c">>)
    @@ ("throw.*not.*implemented" :> <<"t", "h", "r", "o", "w", ".", "*", "n", "o", "t", ".", "*", "i", "m", "p", "l", "e", "m", "e", "n", "t", "e", "d">>)
    @@ ("throw" :> <<"t", "h", "r", "o", "w">>)
    @@ ("not" :> <<"n", "o", "t">>)
    @@ ("implemented" :> <<"i", "m", "p", "l", "e", "m", "e", "n", "t", "e", "d">>)
    @@ ("(" :> <<"(">>)
    @@ (")" :> <<")">>)
    @@ ("{" :> <<"{">>)
    @@ (";" :> <<";">>)
    @@ ("const" :> <<"c", "o", "n", "s", "t">>)
    @@ ("override" :> <<"o", "v", "e", "r", "r", "i", "d", "e">>)
    @@ ("if" :> <<"i", "f">>)
    @@ ("for" :> <<"f", "o", "r">>)
    @@ ("while" :> <<"w", "h", "i", "l", "e">>)
    @@ ("switch" :> <<"s", "w", "i", "t", "c", "h">>)
    @@ ("catch" :> <<"c", "a", "t", "c", "h">>)
    @@ (".Tests" :> <<".", "T", "e", "s", "t", "s">>)
    @@ ("Neo." :> <<"N", "e", "o", ".">>)
    @@ ("Plugins." :> <<"P", "l", "u", "g", "i", "n", "s", ".">>)
    @@ ("neo." :> <<"n", "e", "o", ".">>)
    @@ ("plugins." :> <<"p", "l", "u", "g", "i", "n", "s", ".">>)
    @@ ("neo_" :> <<"n", "e", "o", "_">>)
    @@ ("core" :> <<"c", "o", "r", "e">>)
    @@ ("integration" :> <<"i", "n", "t", "e", "g", "r", "a", "t", "i", "o", "n">>)
    @@ ("unittests" :> <<"u", "n", "i", "t", "t", "e", "s", "t", "s">>)
    @@ ("cryptographybls12381" :> <<"c", "r", "y", "p", "t", "o", "g", "r", "a", "p", "h", "y", "b", "l", "s", "1", "2", "3", "8", "1">>)
    @@ ("cryptography_bls12_381" :> <<"c", "r", "y", "p", "t", "o", "g", "r", "a", "p", "h", "y", "_", "b", "l", "s", "1", "2", "_", "3", "8", "1">>)
    @@ ("extensions" :> <<"e", "x", "t", "e", "n", "s", "i", "o", "n", "s">>)
    @@ ("consoleservice" :> <<"c", "o", "n", "s", "o", "l", "e", "s", "e", "r", "v", "i", "c", "e">>)
    @@ ("console_service" :> <<"c", "o", "n", "s", "o", "l", "e", "_", "s", "e", "r", "v", "i", "c", "e">>)
    @@ ("rpcclient" :> <<"r", "p", "c", "c", "l", "i", "e", "n", "t">>)
    @@ ("rpc_client" :> <<"r", "p", "c", "_", "c", "l", "i", "e", "n", "t">>)
    @@ ("dbftplugin" :> <<"d", "b", "f", "t", "p", "l", "u", "g", "i", "n">>)
    @@ ("rpcserver" :> <<"r", "p", "c", "s", "e", "r", "v", "e", "r">>)
    @@ ("rpc_server" :> <<"r", "p", "c", "_", "s", "e", "r", "v", "e", "r">>)
    @@ ("static" :> <<"s", "t", "a", "t", "i", "c">>)
    @@ ("inline" :> <<"i", "n", "l", "i", "n", "e">>)
    @@ ("virtual" :> <<"v", "i", "r", "t", "u", "a", "l">>)
    @@ ("unsigned" :> <<"u", "n", "s", "i", "g", "n", "e", "d">>)
    @@ ("noexcept" :> <<"n", "o", "e", "x", "c", "e", "p", "t">>)
    @@ ("->" :> <<"-", ">">>)
    @@ ("~" :> <<"~">>)
    @@ (":" :> <<":">>)
    @@ ("CMakeLists.txt" :> <<"C", "M", "a", "k", "e", "L", "i", "s", "t", "s", ".", "t", "x", "t">>)

\* The file names, test names and contents of the inputs, spelled out.
Txt ==
       ("foo" :> <<"f", "o", "o">>)
    @@ ("ld" :> <<"l", "d">>)
    @@ ("_o" :> <<"_", "o">>)
    @@ ("1" :> <<"1">>)
    @@ ("2" :> <<"2">>)
    @@ ("te" :> <<"t", "e">>)
    @@ ("st" :> <<"s", "t">>)
    @@ ("u" :> <<"u">>)
    @@ ("t_" :> <<"t", "_">>)
    @@ ("Add" :> <<"A", "d", "d">>)
    @@ ("x" :> <<"x">>)
    @@ ("TestAdd" :> <<"T", "e", "s", "t", "A", "d", "d">>)
    @@ ("Foo" :> <<"F", "o", "o">>)
    @@ ("Bar" :> <<"B", "a", "r">>)
    @@ ("Verify" :> <<"V", "e", "r", "i", "f", "y">>)
    @@ ("S" :> <<"S">>)
    @@ ("W" :> <<"W">>)
    @@ ("Verification" :> <<"V", "e", "r", "i", "f", "i", "c", "a", "t", "i", "o", "n">>)
    @@ ("UT_Verify" :> <<"U", "T", "_", "V", "e", "r", "i", "f", "y">>)
    @@ ("UT_A.cs" :> <<"U", "T", "_", "A", ".", "c", "s">>)
    @@ ("UT_B.cs" :> <<"U", "T", "_", "B", ".", "c", "s">>)
    @@ ("UT_C.cs" :> <<"U", "T", "_", "C", ".", "c", "s">>)
    @@ ("Helper.cs" :> <<"H", "e", "l", "p", "e", "r", ".", "c", "s">>)
    @@ ("neo_csharp/tests/IO" :> <<"n", "e", "o", "_", "c", "s", "h", "a", "r", "p", "/", "t", "e", "s", "t", "s", "/", "I", "O">>)
    @@ ("neo_csharp/tests/Ledger" :> <<"n", "e", "o", "_", "c", "s", "h", "a", "r", "p", "/", "t", "e", "s", "t", "s", "/", "L", "e", "d", "g", "e", "r">>)
    @@ ("./tests/io" :> <<".", "/", "t", "e", "s", "t", "s", "/", "i", "o">>)
    @@ ("./tests/ledger" :> <<".", "/", "t", "e", "s", "t", "s", "/", "l", "e", "d", "g", "e", "r">>)
    @@ ("./tests/wallet" :> <<".", "/", "t", "e", "s", "t", "s", "/", "w", "a", "l", "l", "e", "t">>)
    @@ ("./neo_csharp/tests/io" :> <<".", "/", "n", "e", "o", "_", "c", "s", "h", "a", "r", "p", "/", "t", "e", "s", "t", "s", "/", "i", "o">>)
    @@ ("test_a.cpp" :> <<"t", "e", "s", "t", "_", "a", ".", "c", "p", "p">>)
    @@ ("test_b.cpp" :> <<"t", "e", "s", "t", "_", "b", ".", "c", "p", "p">>)
    @@ ("test_c.cpp" :> <<"t", "e", "s", "t", "_", "c", ".", "c", "p", "p">>)
    @@ ("test_d.cpp" :> <<"t", "e", "s", "t", "_", "d", ".", "c", "p", "p">>)
    @@ ("helper.cpp" :> <<"h", "e", "l", "p", "e", "r", ".", "c", "p", "p">>)
    @@ ("a" :> <<"a">>)
    @@ ("b" :> <<"b">>)
    @@ ("widget" :> <<"w", "i", "d", "g", "e", "t">>)
    @@ ("widget_fixed" :> <<"w", "i", "d", "g", "e", "t", "_", "f", "i", "x", "e", "d">>)
    @@ ("widget_old" :> <<"w", "i", "d", "g", "e", "t", "_", "o", "l", "d">>)
    @@ ("gadget_old_new" :> <<"g", "a", "d", "g", "e", "t", "_", "o", "l", "d", "_", "n", "e", "w">>)
    @@ ("gadget_old" :> <<"g", "a", "d", "g", "e", "t", "_", "o", "l", "d">>)
    @@ ("gadget_new" :> <<"g", "a", "d", "g", "e", "t", "_", "n", "e", "w">>)
    @@ ("gadget" :> <<"g", "a", "d", "g", "e", "t">>)
    @@ ("latest" :> <<"l", "a", "t", "e", "s", "t">>)
    @@ ("a b" :> <<"a", " ", "b">>)
    @@ ("a c" :> <<"a", " ", "c">>)
    @@ ("widget_fixed.cpp" :> <<"w", "i", "d", "g", "e", "t", "_", "f", "i", "x", "e", "d", ".", "c", "p", "p">>)
    @@ ("widget.cpp widget_fixed.cpp" :> <<"w", "i", "d", "g", "e", "t", ".", "c", "p", "p", " ", "w", "i", "d", "g", "e", "t", "_", "f", "i", "x", "e", "d", ".", "c", "p", "p">>)
    @@ ("gadget_old.cpp" :> <<"g", "a", "d", "g", "e", "t", "_", "o", "l", "d", ".", "c", "p", "p">>)
    @@ ("cmake" :> <<"c", "m", "a", "k", "e">>)
    @@ ("CMakeLists.txt" :> <<"C", "M", "a", "k", "e", "L", "i", "s", "t", "s", ".", "t", "x", "t">>)
    @@ ("cmake/CMakeLists.txt" :> <<"c", "m", "a", "k", "e", "/", "C", "M", "a", "k", "e", "L", "i", "s", "t", "s", ".", "t", "x", "t">>)
    @@ ("widget.cpp" :> <<"w", "i", "d", "g", "e", "t", ".", "c", "p", "p">>)
    @@ ("widget.cpp gadget_old.cpp" :> <<"w", "i", "d", "g", "e", "t", ".", "c", "p", "p", " ", "g", "a", "d", "g", "e", "t", "_", "o", "l", "d", ".", "c", "p", "p">>)
    @@ ("c" :> <<"c">>)
    @@ ("widget_complete" :> <<"w", "i", "d", "g", "e", "t", "_", "c", "o", "m", "p", "l", "e", "t", "e">>)
    @@ ("widget_minimal" :> <<"w", "i", "d", "g", "e", "t", "_", "m", "i", "n", "i", "m", "a", "l">>)
    @@ ("throw not implemented" :> <<"t", "h", "r", "o", "w", " ", "n", "o", "t", " ", "i", "m", "p", "l", "e", "m", "e", "n", "t", "e", "d">>)
    @@ ("int f();" :> <<"i", "n", "t", " ", "f", "(", ")", ";">>)
    @@ ("widget_fixed.cpp widget_complete.cpp gadget_new.cpp" :> <<"w", "i", "d", "g", "e", "t", "_", "f", "i", "x", "e", "d", ".", "c", "p", "p", " ", "w", "i", "d", "g", "e", "t", "_", "c", "o", "m", "p", "l", "e", "t", "e", ".", "c", "p", "p", " ", "g", "a", "d", "g", "e", "t", "_", "n", "e", "w", ".", "c", "p", "p">>)
    @@ ("mywidget.cpp my-gadget_old.cpp" :> <<"m", "y", "w", "i", "d", "g", "e", "t", ".", "c", "p", "p", " ", "m", "y", "-", "g", "a", "d", "g", "e", "t", "_", "o", "l", "d", ".", "c", "p", "p">>)
    @@ ("UT_Locked.cs" :> <<"U", "T", "_", "L", "o", "c", "k", "e", "d", ".", "c", "s">>)
    @@ ("test_locked.cpp" :> <<"t", "e", "s", "t", "_", "l", "o", "c", "k", "e", "d", ".", "c", "p", "p">>)
    @@ ("Locked" :> <<"L", "o", "c", "k", "e", "d">>)
    @@ ("Neo.Json.Tests" :> <<"N", "e", "o", ".", "J", "s", "o", "n", ".", "T", "e", "s", "t", "s">>)
    @@ ("Neo.VM.Tests" :> <<"N", "e", "o", ".", "V", "M", ".", "T", "e", "s", "t", "s">>)
    @@ ("Neo.Plugins.RpcServer.Tests" :> <<"N", "e", "o", ".", "P", "l", "u", "g", "i", "n", "s", ".", "R", "p", "c", "S", "e", "r", "v", "e", "r", ".", "T", "e", "s", "t", "s">>)
    @@ ("docs" :> <<"d", "o", "c", "s">>)
    @@ ("UT_JArray.cs" :> <<"U", "T", "_", "J", "A", "r", "r", "a", "y", ".", "c", "s">>)
    @@ ("UT_Script.cs" :> <<"U", "T", "_", "S", "c", "r", "i", "p", "t", ".", "c", "s">>)
    @@ ("UT_RpcServer.cs" :> <<"U", "T", "_", "R", "p", "c", "S", "e", "r", "v", "e", "r", ".", "c", "s">>)
    @@ ("notes.cs" :> <<"n", "o", "t", "e", "s", ".", "c", "s">>)
    @@ ("TestClear" :> <<"T", "e", "s", "t", "C", "l", "e", "a", "r">>)
    @@ ("TestParse" :> <<"T", "e", "s", "t", "P", "a", "r", "s", "e">>)
    @@ ("TestStart" :> <<"T", "e", "s", "t", "S", "t", "a", "r", "t">>)
    @@ ("json" :> <<"j", "s", "o", "n">>)
    @@ ("vm" :> <<"v", "m">>)
    @@ ("test_jarray.cpp" :> <<"t", "e", "s", "t", "_", "j", "a", "r", "r", "a", "y", ".", "c", "p", "p">>)
    @@ ("script_test.cpp" :> <<"s", "c", "r", "i", "p", "t", "_", "t", "e", "s", "t", ".", "c", "p", "p">>)
    @@ ("test_helper.cpp" :> <<"t", "e", "s", "t", "_", "h", "e", "l", "p", "e", "r", ".", "c", "p", "p">>)
    @@ ("test_node.cpp" :> <<"t", "e", "s", "t", "_", "n", "o", "d", "e", ".", "c", "p", "p">>)
    @@ ("JArray" :> <<"J", "A", "r", "r", "a", "y">>)
    @@ ("Clear" :> <<"C", "l", "e", "a", "r">>)
    @@ ("Extra" :> <<"E", "x", "t", "r", "a">>)
    @@ ("Script" :> <<"S", "c", "r", "i", "p", "t">>)
    @@ ("Parse" :> <<"P", "a", "r", "s", "e">>)
    @@ ("Node" :> <<"N", "o", "d", "e">>)
    @@ ("Start" :> <<"S", "t", "a", "r", "t">>)
    @@ ("Helper" :> <<"H", "e", "l", "p", "e", "r">>)
    @@ ("Hash" :> <<"H", "a", "s", "h">>)
    @@ ("/builds/neo" :> <<"/", "b", "u", "i", "l", "d", "s", "/", "n", "e", "o">>)
    @@ ("io" :> <<"i", "o">>)
    @@ ("smartcontract" :> <<"s", "m", "a", "r", "t", "c", "o", "n", "t", "r", "a", "c", "t">>)
    @@ ("native" :> <<"n", "a", "t", "i", "v", "e">>)
    @@ ("test_io.cpp" :> <<"t", "e", "s", "t", "_", "i", "o", ".", "c", "p", "p">>)
    @@ ("test_contract.cpp" :> <<"t", "e", "s", "t", "_", "c", "o", "n", "t", "r", "a", "c", "t", ".", "c", "p", "p">>)
    @@ ("test_neo.cpp" :> <<"t", "e", "s", "t", "_", "n", "e", "o", ".", "c", "p", "p">>)
    @@ ("test_vm.cpp" :> <<"t", "e", "s", "t", "_", "v", "m", ".", "c", "p", "p">>)
    @@ ("test_main.cpp" :> <<"t", "e", "s", "t", "_", "m", "a", "i", "n", ".", "c", "p", "p">>)
    @@ ("TEST(A, B)" :> <<"T", "E", "S", "T", "(", "A", ",", " ", "B", ")">>)
    @@ ("TEST_F(A, B)" :> <<"T", "E", "S", "T", "_", "F", "(", "A", ",", " ", "B", ")">>)
    @@ ("TEST (A, B) TEST(C, D)" :> <<"T", "E", "S", "T", " ", "(", "A", ",", " ", "B", ")", " ", "T", "E", "S", "T", "(", "C", ",", " ", "D", ")">>)
    @@ ("int main()" :> <<"i", "n", "t", " ", "m", "a", "i", "n", "(", ")">>)
    @@ ("neo_csharp/tests/Extensions" :> <<"n", "e", "o", "_", "c", "s", "h", "a", "r", "p", "/", "t", "e", "s", "t", "s", "/", "E", "x", "t", "e", "n", "s", "i", "o", "n", "s">>)
    @@ ("UT_Transaction.cs" :> <<"U", "T", "_", "T", "r", "a", "n", "s", "a", "c", "t", "i", "o", "n", ".", "c", "s">>)
    @@ ("Neo.Ledger" :> <<"N", "e", "o", ".", "L", "e", "d", "g", "e", "r">>)
    @@ ("Neo.Json" :> <<"N", "e", "o", ".", "J", "s", "o", "n">>)
    @@ ("Neo.VM" :> <<"N", "e", "o", ".", "V", "M">>)
    @@ ("ledger" :> <<"l", "e", "d", "g", "e", "r">>)
    @@ ("neo" :> <<"n", "e", "o">>)
    @@ ("Neo.Json.UnitTests" :> <<"N", "e", "o", ".", "J", "s", "o", "n", ".", "U", "n", "i", "t", "T", "e", "s", "t", "s">>)
    @@ ("JArray.cs" :> <<"J", "A", "r", "r", "a", "y", ".", "c", "s">>)
    @@ ("Script.cs" :> <<"S", "c", "r", "i", "p", "t", ".", "c", "s">>)
    @@ ("Block.cs" :> <<"B", "l", "o", "c", "k", ".", "c", "s">>)
    @@ ("jarray.cpp" :> <<"j", "a", "r", "r", "a", "y", ".", "c", "p", "p">>)
    @@ ("block.cpp" :> <<"b", "l", "o", "c", "k", ".", "c", "p", "p">>)
    @@ ("test_script.cpp" :> <<"t", "e", "s", "t", "_", "s", "c", "r", "i", "p", "t", ".", "c", "p", "p">>)
    @@ ("unit" :> <<"u", "n", "i", "t">>)
    @@ ("uint160.h" :> <<"u", "i", "n", "t", "1", "6", "0", ".", "h">>)
    @@ ("types.hpp" :> <<"t", "y", "p", "e", "s", ".", "h", "p", "p">>)
    @@ ("struct UInt256 {" :> <<"s", "t", "r", "u", "c", "t", " ", "U", "I", "n", "t", "2", "5", "6", " ", "{">>)
    @@ ("TestAddition" :> <<"T", "e", "s", "t", "A", "d", "d", "i", "t", "i", "o", "n">>)
    @@ ("TestPut_A" :> <<"T", "e", "s", "t", "P", "u", "t", "_", "A">>)
    @@ ("Put_A" :> <<"P", "u", "t", "_", "A">>)
    @@ ("UT_N.cs" :> <<"U", "T", "_", "N", ".", "c", "s">>)
    @@ ("test_n.cpp" :> <<"t", "e", "s", "t", "_", "n", ".", "c", "p", "p">>)

(***************************************************************************)
(* Text helpers (Python str semantics).                                    *)
(***************************************************************************)

\* All sequences over S of length at most n.
SeqsUpTo(S, n) == UNION {[1..k -> S] : k \in 0..n}

\* s[i..] starts with p (1-based).
IsAt(s, p, i) ==
    /\ i >= 1
    /\ i + Len(p) - 1 <= Len(s)
    /\ \A k \in 1..Len(p) : s[i + k - 1] = p[k]

\* Python: p in s
Contains(s, p) == \E i \in 1..(Len(s) - Len(p) + 1) : IsAt(s, p, i)

\* Python: s.endswith(p)
EndsWith(s, p) == Len(p) <= Len(s) /\ IsAt(s, p, Len(s) - Len(p) + 1)

\* Python: s.startswith(p)
StartsWith(s, p) == IsAt(s, p, 1)

RECURSIVE RemoveFrom(_, _, _)
\* Python: s.replace(old, '') for a non-empty old: one left-to-right pass,
\* occurrences do not overlap, the result is not scanned again.
RemoveFrom(s, old, i) ==
    IF i > Len(s) THEN <<>>
    ELSE IF IsAt(s, old, i) THEN RemoveFrom(s, old, i + Len(old))
    ELSE <<s[i]>> \o RemoveFrom(s, old, i + 1)

Remove(s, old) == RemoveFrom(s, old, 1)

UpperChars == {"A", "B", "C", "D", "E", "F", "G", "H", "I", "J", "K", "L", "M",
               "N", "O", "P", "Q", "R", "S", "T", "U", "V", "W", "X", "Y", "Z"}

LowerOf ==
    [c \in UpperChars |->
        CASE c = "A" -> "a" [] c = "B" -> "b" [] c = "C" -> "c" [] c = "D" -> "d"
          [] c = "E" -> "e" [] c = "F" -> "f" [] c = "G" -> "g" [] c = "H" -> "h"
          [] c = "I" -> "i" [] c = "J" -> "j" [] c = "K" -> "k" [] c = "L" -> "l"
          [] c = "M" -> "m" [] c = "N" -> "n" [] c = "O" -> "o" [] c = "P" -> "p"
          [] c = "Q" -> "q" [] c = "R" -> "r" [] c = "S" -> "s" [] c = "T" -> "t"
          [] c = "U" -> "u" [] c = "V" -> "v" [] c = "W" -> "w" [] c = "X" -> "x"
          [] c = "Y" -> "y" [] c = "Z" -> "z"]

\* Python: s.lower()
Lower(s) == [i \in 1..Len(s) |-> IF s[i] \in UpperChars THEN LowerOf[s[i]] ELSE s[i]]

\* The characters Python's \s matches, among those of the model.
Whitespace == {" ", "\n", "\t"}

(***************************************************************************)
(* scripts/check_duplicates.py: comment stripping and similarity.          *)
(***************************************************************************)

\* The end of the line that holds position i: the first "\n" at or after i,
\* or one past the end of the text.
EndOfLine(s, i) ==
    IF \E j \in i..Len(s) : s[j] = "\n"
    THEN CHOOSE j \in i..Len(s) : s[j] = "\n" /\ \A k \in i..(j - 1) : s[k] # "\n"
    ELSE Len(s) + 1

RECURSIVE RemoveLineComments(_, _)
\* re.sub(r'//.*$', '', content, flags=re.MULTILINE)
RemoveLineComments(s, i) ==
    IF i > Len(s) THEN <<>>
    ELSE IF IsAt(s, <<"/", "/">>, i) THEN RemoveLineComments(s, EndOfLine(s, i))
    ELSE <<s[i]>> \o RemoveLineComments(s, i + 1)

\* Where the block comment opened at i closes: the first "*/" at or after
\* i + 2, or 0 when there is none.
BlockClose(s, i) ==
    IF \E j \in (i + 2)..Len(s) : IsAt(s, <<"*", "/">>, j)
    THEN CHOOSE j \in (i + 2)..Len(s) :
            /\ IsAt(s, <<"*", "/">>, j)
            /\ \A k \in (i + 2)..(j - 1) : ~IsAt(s, <<"*", "/">>, k)
    ELSE 0

RECURSIVE RemoveBlockComments(_, _)
\* re.sub(r'/\*.*?\*/', '', content, flags=re.DOTALL)
RemoveBlockComments(s, i) ==
    IF i > Len(s) THEN <<>>
    ELSE IF IsAt(s, <<"/", "*">>, i) /\ BlockClose(s, i) # 0
         THEN RemoveBlockComments(s, BlockClose(s, i) + 2)
    ELSE <<s[i]>> \o RemoveBlockComments(s, i + 1)

remove_comments(content) ==
    RemoveBlockComments(RemoveLineComments(content, 1), 1)

\* re.sub(r'\s+', '', s)
RemoveWhitespace(s) == SelectSeq(s, LAMBDA c : c \notin Whitespace)

RECURSIVE SplitFrom(_, _, _)
\* The tokens of s[i..], cur being the token read so far.
SplitFrom(s, i, cur) ==
    IF i > Len(s) THEN (IF cur = <<>> THEN {} ELSE {cur})
    ELSE IF s[i] \in Whitespace
         THEN (IF cur = <<>> THEN {} ELSE {cur}) \cup SplitFrom(s, i + 1, <<>>)
    ELSE SplitFrom(s, i + 1, Append(cur, s[i]))

\* set(s.split()): the set of whitespace-delimited tokens of s.
TokenSet(s) == SplitFrom(s, 1, <<>>)

\* A float that is a ratio of two counts is kept as the ratio.
Ratio(n, d) == [num |-> n, den |-> d]
Zero == Ratio(0, 1)
RatEq(p, q) == p.num * q.den = q.num * p.den
RatLeq(p, q) == p.num * q.den <= q.num * p.den

\* calculate_similarity with the comments of content2 left in place.
calculate_similarity_raw2(c1, c2) ==
    LET clean1 == RemoveWhitespace(remove_comments(c1))
        clean2 == RemoveWhitespace(c2)
        set1 == TokenSet(clean1)
        set2 == TokenSet(clean2)
        intersection == Cardinality(set1 \cap set2)
        union == Cardinality(set1 \cup set2)
    IN  IF clean1 = <<>> \/ clean2 = <<>> THEN Zero
        ELSE IF union > 0 THEN Ratio(intersection, union) ELSE Zero

calculate_similarity(c1, c2) ==
    LET clean1 == RemoveWhitespace(remove_comments(c1))
        clean2 == RemoveWhitespace(remove_comments(c2))
        set1 == TokenSet(clean1)
        set2 == TokenSet(clean2)
        intersection == Cardinality(set1 \cap set2)
        union == Cardinality(set1 \cup set2)
    IN  IF clean1 = <<>> \/ clean2 = <<>> THEN Zero
        ELSE IF union > 0 THEN Ratio(intersection, union) ELSE Zero


(***************************************************************************)
(* Sequences.                                                              *)
(***************************************************************************)

Range(s) == {s[i] : i \in 1..Len(s)}

RECURSIVE Flatten(_)
\* The concatenation of a sequence of sequences.
Flatten(ss) == IF ss = <<>> THEN <<>> ELSE Head(ss) \o Flatten(Tail(ss))

\* Every text made of at most n pieces of P, one after the other.
Concats(P, n) == {Flatten(q) : q \in SeqsUpTo(P, n)}

\* The sequences over S of length at most n that name no element twice.
InjectiveSeqs(S, n) ==
    {q \in SeqsUpTo(S, n) : \A i, j \in 1..Len(q) : i # j => q[i] # q[j]}

(***************************************************************************)
(* Name normalizations.                                                    *)
(***************************************************************************)

Digits == {"0", "1", "2", "3", "4", "5", "6", "7", "8", "9"}

\* The fixed alternatives of suffix_pattern, in the order the regular
\* expression tries them; the last alternative, _v\d+, is matched apart.
suffix_pattern_fixed ==
    << Lit["_complete"], Lit["_minimal"], Lit["_fixed"], Lit["_broken"],
       Lit["_simple"], Lit["_full"], Lit["_impl"], Lit["_test"],
       Lit["_old"], Lit["_new"] >>

RECURSIVE DigitRun(_, _)
\* The length of the run of digits of s that starts at i.
DigitRun(s, i) ==
    IF i <= Len(s) /\ s[i] \in Digits THEN 1 + DigitRun(s, i + 1) ELSE 0

\* The length of the match of suffix_pattern at position i of s, 0 when it
\* does not match there.
SuffixMatchLen(s, i) ==
    IF \E k \in 1..Len(suffix_pattern_fixed) : IsAt(s, suffix_pattern_fixed[k], i)
    THEN Len(suffix_pattern_fixed[
            CHOOSE k \in 1..Len(suffix_pattern_fixed) :
                /\ IsAt(s, suffix_pattern_fixed[k], i)
                /\ \A m \in 1..(k - 1) : ~IsAt(s, suffix_pattern_fixed[m], i)])
    ELSE IF IsAt(s, Lit["_v"], i) /\ DigitRun(s, i + 2) > 0
         THEN 2 + DigitRun(s, i + 2)
    ELSE 0

RECURSIVE SuffixSubFrom(_, _)
\* suffix_pattern.sub('', s) from position i on: every match is removed, left
\* to right, and the text that results is not scanned again.
SuffixSubFrom(s, i) ==
    IF i > Len(s) THEN <<>>
    ELSE IF SuffixMatchLen(s, i) > 0 THEN SuffixSubFrom(s, i + SuffixMatchLen(s, i))
    ELSE <<s[i]>> \o SuffixSubFrom(s, i + 1)

\* DuplicateChecker.find_similar_filenames: base_name of a file stem.
similar_base_name(stem) == SuffixSubFrom(stem, 1)

duplicate_suffixes ==
    << Lit["_complete"], Lit["_minimal"], Lit["_fixed"], Lit["_broken"],
       Lit["_simple"], Lit["_full"], Lit["_impl"], Lit["_old"], Lit["_new"],
       Lit["_stubs"], Lit["_partial"], Lit["_standalone"], Lit["_testnet"] >>

\* ImplementationDuplicateChecker.find_implementation_files: base_name of a
\* file stem; the first suffix of the list the stem ends with is cut, once.
impl_base_name(stem) ==
    IF \E k \in 1..Len(duplicate_suffixes) : EndsWith(stem, duplicate_suffixes[k])
    THEN LET k == CHOOSE k \in 1..Len(duplicate_suffixes) :
                    /\ EndsWith(stem, duplicate_suffixes[k])
                    /\ \A m \in 1..(k - 1) : ~EndsWith(stem, duplicate_suffixes[m])
         IN  SubSeq(stem, 1, Len(stem) - Len(duplicate_suffixes[k]))
    ELSE stem

\* UnitTestCoverageChecker._tests_equivalent: the normalized method name.
tests_equivalent_normalized(method) ==
    Remove(Remove(Lower(method), Lit["test"]), Lit["_"])

\* TestCoverageAnalyzer.map_test_names: cs_clean.
cs_clean_of(cs_name) ==
    Remove(Remove(Remove(Lower(cs_name), Lit["test_"]), Lit["ut_"]), Lit["test"])

FileKinds == {"similar_filenames", "implementation_files"}
TestKinds == {"tests_equivalent", "map_test_names"}

Normalize(kind, x) ==
    CASE kind = "similar_filenames" -> similar_base_name(x)
      [] kind = "implementation_files" -> impl_base_name(x)
      [] kind = "tests_equivalent" -> tests_equivalent_normalized(x)
      [] kind = "map_test_names" -> cs_clean_of(x)

\* The pieces file stems and test names are made of, and how many of them.
StemPieces == {Txt["foo"], Lit["_old"], Lit["_new"], Txt["_o"], Txt["ld"], Lit["_v"], Txt["1"]}
NamePieces == {Lit["Test"], Txt["te"], Txt["st"], Lit["_"], Txt["u"], Txt["t_"], Txt["Add"]}
MaxParts == 3

(***************************************************************************)
(* Initial values of the runs that a specification does not make.          *)
(***************************************************************************)

NoResult == [num |-> -1, den |-> 1]
NoReport == [none |-> TRUE]

SimIdle ==
    /\ content1 = <<>>
    /\ content2 = <<>>
    /\ simPc = "idle"
    /\ simResult = NoResult

NormIdle ==
    /\ normKind = "idle"
    /\ normInput = <<>>
    /\ normOnce = <<>>
    /\ normTwice = <<>>
    /\ normPc = "idle"

CovIdle ==
    /\ cs_exists = TRUE
    /\ csWalk = <<>>
    /\ cppWalk = <<>>
    /\ covPc = "idle"
    /\ analysis = NoReport

TcIdle ==
    /\ tcWalk = <<>>
    /\ tcPc = "idle"
    /\ tcTotals = NoReport

CvIdle ==
    /\ cvNeoExists = FALSE
    /\ cvNeo = <<>>
    /\ cvCpp = <<>>
    /\ cvPc = "idle"
    /\ cvResults = NoReport
    /\ cvPrinted = NoReport

FnIdle ==
    /\ fnWalk = <<>>
    /\ fnPc = "idle"
    /\ fnFunctions = <<>>
    /\ fnNames = <<>>
    /\ fnDuplicates = {}

UtIdle ==
    /\ utProjects = <<>>
    /\ utFiles = <<>>
    /\ utPc = "idle"
    /\ utResults = NoReport
    /\ utExit = 0

DupIdle ==
    /\ src_exists = TRUE
    /\ walk = <<>>
    /\ manifests = <<>>
    /\ dupPc = "idle"
    /\ dupReport = NoReport
    /\ implPc = "idle"
    /\ implReport = NoReport

(***************************************************************************)
(* calculate_similarity on two contents.                                   *)
(***************************************************************************)

\* Bounds of the contents compared.
MaxContentLen == 3
MaxContentLen2 == 2

SimChars == {"a", " ", "\n", "/", "*"}

\* Longer contents: token sets {a,b,c} and {a,b,d}, two commented files.
ExampleContents ==
    { <<"a", " ", "b", " ", "c">>,
      <<"a", " ", "b", " ", "d">>,
      <<"a", "/", "*", "b", "*", "/", " ", "c">>,
      <<"a", " ", "/", "/", "b", "\n", "c">> }

SimStart ==
    /\ content1 \in SeqsUpTo(SimChars, MaxContentLen) \cup ExampleContents
    /\ content2 \in SeqsUpTo(SimChars, MaxContentLen2) \cup ExampleContents
    /\ simPc = "start"
    /\ simResult = NoResult

CalculateSimilarity ==
    /\ simPc = "start"
    /\ simResult' = calculate_similarity(content1, content2)
    /\ simPc' = "done"
    /\ UNCHANGED <<content1, content2, normVars, covVars, dupVars, utVars, fnVars, cvVars, tcVars>>

InitSim == SimStart /\ NormIdle /\ CovIdle /\ DupIdle /\ UtIdle /\ FnIdle /\ CvIdle /\ TcIdle

SpecSim == InitSim /\ [][CalculateSimilarity]_vars

(***************************************************************************)
(* A normalization applied to a name and then to its own output.           *)
(***************************************************************************)

NormStart ==
    /\ normKind \in FileKinds \cup TestKinds
    /\ normInput \in (IF normKind \in FileKinds THEN Concats(StemPieces, MaxParts)
                                               ELSE Concats(NamePieces, MaxParts))
    /\ normOnce = <<>>
    /\ normTwice = <<>>
    /\ normPc = "start"

NormalizeOnce ==
    /\ normPc = "start"
    /\ normOnce' = Normalize(normKind, normInput)
    /\ normPc' = "once"
    /\ UNCHANGED <<normKind, normInput, normTwice, simVars, covVars, dupVars, utVars, fnVars, cvVars, tcVars>>

NormalizeAgain ==
    /\ normPc = "once"
    /\ normTwice' = Normalize(normKind, normOnce)
    /\ normPc' = "twice"
    /\ UNCHANGED <<normKind, normInput, normOnce, simVars, covVars, dupVars, utVars, fnVars, cvVars, tcVars>>

NormNext == NormalizeOnce \/ NormalizeAgain

InitNorm == NormStart /\ SimIdle /\ CovIdle /\ DupIdle /\ UtIdle /\ FnIdle /\ CvIdle /\ TcIdle

SpecNorm == InitNorm /\ [][NormNext]_vars

(***************************************************************************)
(* analyze_test_coverage.py: TestCoverageAnalyzer.                         *)
(***************************************************************************)

\* os.path.join(root, file)
PathJoin(root, file) == root \o Lit["/"] \o file

_get_category(filepath) ==
    LET p == Lower(filepath)
    IN  IF Contains(p, Lit["cryptography"]) THEN "Cryptography"
        ELSE IF Contains(p, Lit["io"]) THEN "IO"
        ELSE IF Contains(p, Lit["ledger"]) \/ Contains(p, Lit["blockchain"]) THEN "Ledger"
        ELSE IF Contains(p, Lit["network"]) \/ Contains(p, Lit["p2p"]) THEN "Network"
        ELSE IF Contains(p, Lit["persistence"]) \/ Contains(p, Lit["storage"]) THEN "Persistence"
        ELSE IF Contains(p, Lit["smartcontract"]) \/ Contains(p, Lit["vm"]) THEN "SmartContract"
        ELSE IF Contains(p, Lit["wallet"]) THEN "Wallet"
        ELSE IF Contains(p, Lit["consensus"]) THEN "Consensus"
        ELSE IF Contains(p, Lit["native"]) THEN "NativeContracts"
        ELSE IF Contains(p, Lit["rpc"]) THEN "RPC"
        ELSE IF Contains(p, Lit["json"]) THEN "Json"
        ELSE IF Contains(p, Lit["extension"]) \/ Contains(p, Lit["misc"]) THEN "Extensions"
        ELSE "Other"

\* The dictionary category -> list that both finders build: each entry's
\* tests are appended to its category's list, in the order of the entries;
\* an entry without tests creates no category.
GroupByCategory(entries) ==
    LET filled == SelectSeq(entries, LAMBDA e : e.tests # <<>>)
    IN  [c \in {e.category : e \in Range(filled)} |->
            Flatten([i \in 1..Len(filled) |->
                IF filled[i].category = c THEN filled[i].tests ELSE <<>>])]

\* find_cs_tests: the file-name filter of a reference file.
CsSelected(f) ==
    /\ EndsWith(f.name, Lit[".cs"])
    /\ (StartsWith(f.name, Lit["UT_"]) \/ Contains(f.name, Lit["Test"]))

\* A reference file's methods are the names the two re.findall calls return.
find_cs_tests(files) ==
    LET kept == SelectSeq(files, CsSelected)
    IN  GroupByCategory([i \in 1..Len(kept) |->
            [category |-> _get_category(PathJoin(kept[i].root, kept[i].name)),
             tests |-> kept[i].methods]])

\* find_cpp_tests: directories under neo_csharp are skipped, then the
\* file-name filter.
CppSelected(f) ==
    /\ ~Contains(f.root, Lit["neo_csharp"])
    /\ StartsWith(f.name, Lit["test_"])
    /\ EndsWith(f.name, Lit[".cpp"])

\* A candidate file's cases are the (suite, test) pairs re.findall returns;
\* each is recorded as "suite.test".
find_cpp_tests(files) ==
    LET kept == SelectSeq(files, CppSelected)
    IN  GroupByCategory([i \in 1..Len(kept) |->
            [category |-> _get_category(PathJoin(kept[i].root, kept[i].name)),
             tests |-> [k \in 1..Len(kept[i].cases) |->
                          kept[i].cases[k][1] \o <<".">> \o kept[i].cases[k][2]]]])

mappings ==
    << <<Lit["serialize"], Lit["serializ"]>>, <<Lit["deserialize"], Lit["deserializ"]>>,
       <<Lit["parse"], Lit["pars"]>>, <<Lit["tostring"], Lit["tostring"]>>,
       <<Lit["tohex"], Lit["tohex"]>>, <<Lit["equals"], Lit["equal"]>>,
       <<Lit["compare"], Lit["compar"]>>, <<Lit["create"], Lit["creat"]>>,
       <<Lit["verify"], Lit["verif"]>>, <<Lit["sign"], Lit["sign"]>>,
       <<Lit["hash"], Lit["hash"]>>, <<Lit["encrypt"], Lit["encrypt"]>>,
       <<Lit["decrypt"], Lit["decrypt"]>> >>

_similar_test_name(cs_name, cpp_name) ==
    \E k \in 1..Len(mappings) :
        /\ Contains(Lower(cs_name), mappings[k][1])
        /\ Contains(Lower(cpp_name), mappings[k][2])

\* map_test_names: the candidate names that match cs_name, in order.
map_test_names(cs_name, cpp_names) ==
    LET cs_lower == Lower(cs_name)
        cs_clean == cs_clean_of(cs_name)
    IN  SelectSeq(cpp_names, LAMBDA cpp_name :
            \/ Contains(Lower(cpp_name), cs_lower)
            \/ Contains(cs_lower, Lower(cpp_name))
            \/ (cs_clean # <<>> /\ Contains(Lower(cpp_name), cs_clean))
            \/ _similar_test_name(cs_name, cpp_name))

\* Python's true division: a zero divisor raises ZeroDivisionError.
Raised == [error |-> "ZeroDivisionError"]
PyDivide(n, d) == IF d = 0 THEN Raised ELSE Ratio(n, d)

\* analyze_coverage, the loop over a category's reference tests: covered.
CoveredCount(cs_tests, cpp_tests) ==
    Len(SelectSeq(cs_tests, LAMBDA t : map_test_names(t, cpp_tests) # <<>>))

RECURSIVE WithoutRepeats(_)
\* A list with every repetition of an earlier entry dropped.
WithoutRepeats(s) ==
    IF s = <<>> THEN <<>>
    ELSE LET front == WithoutRepeats(SubSeq(s, 1, Len(s) - 1))
         IN  IF s[Len(s)] \in Range(front) THEN front ELSE Append(front, s[Len(s)])

\* MissingList that appends a name only if the list does not hold it yet.
MissingList_once(cs_tests, cpp_tests) ==
    WithoutRepeats(SelectSeq(cs_tests, LAMBDA t : map_test_names(t, cpp_tests) = <<>>))

\* analyze_coverage, the loop over a category's reference tests: missing.
MissingList(cs_tests, cpp_tests) ==
    SelectSeq(cs_tests, LAMBDA t : map_test_names(t, cpp_tests) = <<>>)

\* category_coverage without the guard on an empty list.
category_coverage_unguarded(covered, cs_tests) ==
    PyDivide(covered * 100, Len(cs_tests))

\* coverage = (covered / len(cs_tests) * 100) if cs_tests else 100
category_coverage(covered, cs_tests) ==
    IF cs_tests # <<>> THEN PyDivide(covered * 100, Len(cs_tests)) ELSE Ratio(100, 1)

\* (total_covered / total_cs_tests * 100) if total_cs_tests else 0
overall_coverage(total_covered, total_cs_tests) ==
    IF total_cs_tests # 0 THEN PyDivide(total_covered * 100, total_cs_tests) ELSE Zero

RECURSIVE SumOver(_, _)
\* sum(f[x] for x in S)
SumOver(f, S) ==
    IF S = {} THEN 0
    ELSE LET x == CHOOSE x \in S : TRUE IN f[x] + SumOver(f, S \ {x})

\* dict.get(category, [])
GetOrEmpty(d, k) == IF k \in DOMAIN d THEN d[k] ELSE <<>>

\* open() of a file that cannot be read raises; neither finder catches it.
ReadError == [error |-> "PermissionError"]

\* analyze_coverage: the number of tests of a dictionary category -> list.
total_tests(tests) == SumOver([c \in DOMAIN tests |-> Len(tests[c])], DOMAIN tests)

\* analyze_coverage: covered of every category of all_categories.
covered_table(cs, cpp) ==
    [c \in DOMAIN cs \cup DOMAIN cpp |->
        CoveredCount(GetOrEmpty(cs, c), GetOrEmpty(cpp, c))]

\* analyze_coverage: missing of every category of all_categories.
missing_table(cs, cpp) ==
    [c \in DOMAIN cs \cup DOMAIN cpp |->
        MissingList(GetOrEmpty(cs, c), GetOrEmpty(cpp, c))]

\* analyze_coverage: analysis['categories'].
categories_of(cs, cpp, covered, missing) ==
    [c \in DOMAIN covered |->
        [cs_tests |-> Len(GetOrEmpty(cs, c)),
         cpp_tests |-> Len(GetOrEmpty(cpp, c)),
         covered |-> covered[c],
         missing |-> Len(missing[c]),
         coverage |-> category_coverage(covered[c], GetOrEmpty(cs, c))]]

\* analyze_coverage: the dictionary returned, Raised when a division raises.
analysis_of(cs, cpp, categories, missing, percentage) ==
    IF percentage = Raised \/ \E c \in DOMAIN categories : categories[c].coverage = Raised
    THEN Raised
    ELSE [summary |-> [total_cs_tests |-> total_tests(cs),
                       total_cpp_tests |-> total_tests(cpp),
                       cs_categories |-> Cardinality(DOMAIN cs),
                       cpp_categories |-> Cardinality(DOMAIN cpp)],
          categories |-> categories,
          missing_tests |->
              [c \in {d \in DOMAIN missing : missing[d] # <<>>} |-> missing[c]],
          coverage_percentage |-> percentage]

\* analyze_coverage from the covered counts and the missing lists.
coverage_from(cs, cpp, covered, missing) ==
    analysis_of(cs, cpp, categories_of(cs, cpp, covered, missing), missing,
                overall_coverage(SumOver(covered, DOMAIN covered), total_tests(cs)))

\* analyze_coverage from the dictionaries the two finders return.
coverage_of(cs, cpp) ==
    coverage_from(cs, cpp, covered_table(cs, cpp), missing_table(cs, cpp))

\* analyze_coverage over the two walks; Raised when a division raises,
\* ReadError when a finder opens a file that cannot be read.
analyze_coverage(csFiles, cppFiles) ==
    IF \/ \E i \in 1..Len(csFiles) : CsSelected(csFiles[i]) /\ ~csFiles[i].readable
       \/ \E i \in 1..Len(cppFiles) : CppSelected(cppFiles[i]) /\ ~cppFiles[i].readable
    THEN ReadError
    ELSE coverage_of(find_cs_tests(csFiles), find_cpp_tests(cppFiles))

\* A reference test file with the methods the patterns find in it, and
\* whether open() succeeds on it.
CsFile(root, name, methods, readable) ==
    [root |-> root, name |-> name, methods |-> methods, readable |-> readable]

\* The reference test files a run may find.
CsFilePool ==
    { CsFile(Txt["neo_csharp/tests/IO"], Txt["UT_A.cs"], <<Txt["TestAdd"], Txt["Foo"]>>, TRUE),
      CsFile(Txt["neo_csharp/tests/IO"], Txt["UT_B.cs"], <<Txt["Bar"], Txt["Foo"]>>, TRUE),
      CsFile(Txt["neo_csharp/tests/Ledger"], Txt["UT_C.cs"], <<Txt["Verify"]>>, TRUE),
      CsFile(Txt["neo_csharp/tests/Ledger"], Txt["Helper.cs"], <<Txt["Foo"]>>, TRUE) }

\* A reference test file beside one that cannot be read.
CsLockedPool ==
    { CsFile(Txt["neo_csharp/tests/IO"], Txt["UT_A.cs"], <<Txt["TestAdd"], Txt["Foo"]>>, TRUE),
      CsFile(Txt["neo_csharp/tests/Ledger"], Txt["UT_Locked.cs"], <<Txt["Locked"]>>, FALSE) }

\* Reference tests named "Test" + X.
CsNamesPool ==
    { CsFile(Txt["neo_csharp/tests/IO"], Txt["UT_N.cs"],
             <<Txt["TestAddition"], Txt["TestPut_A"]>>, TRUE),
      CsFile(Txt["neo_csharp/tests/IO"], Txt["UT_A.cs"], <<Txt["TestAdd"], Txt["Foo"]>>, TRUE) }

\* A reference file whose name holds the letters of a category keyword, and
\* one in the directory of the extensions.
CsClassifiedPool ==
    { CsFile(Txt["neo_csharp/tests/Ledger"], Txt["UT_Transaction.cs"], <<Txt["Verify"]>>, TRUE),
      CsFile(Txt["neo_csharp/tests/Extensions"], Txt["UT_C.cs"], <<Txt["Foo"]>>, TRUE) }

CsFilePools == {CsFilePool, CsLockedPool, CsNamesPool, CsClassifiedPool}

\* A candidate test file with the (suite, test) pairs the pattern finds in
\* it, and whether open() succeeds on it.
CppFile(root, name, cases, readable) ==
    [root |-> root, name |-> name, cases |-> cases, readable |-> readable]

\* The candidate test files a run may find.
CppFilePool ==
    { CppFile(Txt["./tests/io"], Txt["test_a.cpp"], << <<Txt["S"], Txt["Add"]>> >>, TRUE),
      CppFile(Txt["./tests/ledger"], Txt["test_b.cpp"],
              << <<Txt["S"], Txt["Verification"]>> >>, TRUE),
      CppFile(Txt["./tests/wallet"], Txt["test_c.cpp"], << <<Txt["W"], Txt["Foo"]>> >>, TRUE),
      CppFile(Txt["./neo_csharp/tests/io"], Txt["test_d.cpp"],
              << <<Txt["S"], Txt["Bar"]>> >>, TRUE) }

\* A candidate test file beside one that cannot be read.
CppLockedPool ==
    { CppFile(Txt["./tests/io"], Txt["test_a.cpp"], << <<Txt["S"], Txt["Add"]>> >>, TRUE),
      CppFile(Txt["./tests/ledger"], Txt["test_locked.cpp"],
              << <<Txt["S"], Txt["Locked"]>> >>, FALSE) }

\* Candidate cases named X.
CppNamesPool ==
    { CppFile(Txt["./tests/io"], Txt["test_n.cpp"],
              << <<Txt["S"], Txt["Put_A"]>> >>, TRUE),
      CppFile(Txt["./tests/io"], Txt["test_a.cpp"], << <<Txt["S"], Txt["Add"]>> >>, TRUE) }

CppFilePools == {CppFilePool, CppLockedPool, CppNamesPool}

\* How many files of each corpus a run finds.
MaxCsFiles == 3
MaxCppFiles == 2

\* The orders in which a directory walk can yield at most n files of a pool:
\* no file twice, the files of one directory one after the other.
WalkOrders(pool, n) ==
    {w \in InjectiveSeqs(pool, n) :
        \A i, j, k \in 1..Len(w) :
            i < j /\ j < k /\ w[i].root = w[k].root => w[j].root = w[i].root}

\* cs_exists: os.path.exists(base_path) in find_cs_tests; without the
\* directory the finder warns and returns no tests.
CovStart ==
    /\ cs_exists \in BOOLEAN
    /\ csWalk \in IF cs_exists
                  THEN UNION {WalkOrders(pool, MaxCsFiles) : pool \in CsFilePools}
                  ELSE {<<>>}
    /\ cppWalk \in UNION {WalkOrders(pool, MaxCppFiles) : pool \in CppFilePools}
    /\ covPc = "start"
    /\ analysis = NoReport

AnalyzeCoverage ==
    /\ covPc = "start"
    /\ analysis' = analyze_coverage(csWalk, cppWalk)
    /\ covPc' = IF analysis' \in {Raised, ReadError} THEN "raised" ELSE "done"
    /\ UNCHANGED <<cs_exists, csWalk, cppWalk, simVars, normVars, dupVars, utVars, fnVars, cvVars, tcVars>>

InitCov == CovStart /\ SimIdle /\ NormIdle /\ DupIdle /\ UtIdle /\ FnIdle /\ CvIdle /\ TcIdle

SpecCov == InitCov /\ [][AnalyzeCoverage]_vars

(***************************************************************************)
(* Ordering of text and of paths (Python's sorted).                        *)
(***************************************************************************)

\* The characters of the model in code-point order.
CodePointOrder ==
    << "\n", " ", "*", "-", ".", "/",
       "0", "1", "2", "3", "4", "5", "6", "7", "8", "9",
       "A", "B", "C", "D", "E", "F", "G", "H", "I", "J", "K", "L", "M",
       "N", "O", "P", "Q", "R", "S", "T", "U", "V", "W", "X", "Y", "Z",
       "_",
       "a", "b", "c", "d", "e", "f", "g", "h", "i", "j", "k", "l", "m",
       "n", "o", "p", "q", "r", "s", "t", "u", "v", "w", "x", "y", "z" >>

CodePoint == [c \in Range(CodePointOrder) |->
                CHOOSE i \in 1..Len(CodePointOrder) : CodePointOrder[i] = c]

\* Python: a < b on str.
StrLess(a, b) ==
    \/ /\ Len(a) < Len(b)
       /\ \A k \in 1..Len(a) : a[k] = b[k]
    \/ \E i \in 1..Len(a) :
        /\ i <= Len(b)
        /\ \A k \in 1..(i - 1) : a[k] = b[k]
        /\ CodePoint[a[i]] < CodePoint[b[i]]

LowerChars == {LowerOf[c] : c \in UpperChars}

\* The characters \w matches.
WordChars == LowerChars \cup UpperChars \cup Digits \cup {"_"}

(***************************************************************************)
(* The candidate source tree both duplicate checkers scan.  A file is      *)
(* <root>/<dir>/<stem><ext> under the project root ".", with its content.  *)
(***************************************************************************)

FileName(f) == f.stem \o f.ext

\* str(path) of a file, relative to the project root.
PathStr(f) == f.root \o Lit["/"] \o f.dir \o Lit["/"] \o FileName(f)

\* str(path) of a file found under project_root / "src" or "include":
\* Path(".") / "src" is "src", any other root is spelled out.
StrPath(f) ==
    IF f.project_root = <<".">> THEN PathStr(f)
    ELSE f.project_root \o Lit["/"] \o PathStr(f)

\* Path.__lt__: paths compare part by part.
PathLess(f, g) ==
    \/ StrLess(f.root, g.root)
    \/ f.root = g.root /\ StrLess(f.dir, g.dir)
    \/ f.root = g.root /\ f.dir = g.dir /\ StrLess(FileName(f), FileName(g))

\* rglob(pattern) under a root: the files of the tree with that root and
\* extension, in the order the file system yields them.
Rglob(files, root, ext) == SelectSeq(files, LAMBDA f : f.root = root /\ f.ext = ext)

\* The exclusion both checkers apply to str(path).
Excluded(f) == Contains(StrPath(f), Lit["build"]) \/ Contains(StrPath(f), Lit["test"])

\* The ordered dictionary key -> list of files that grouping builds: keys in
\* the order of their first file, each list in the order of the files.
GroupBy(files, base_names) ==
    LET keys == WithoutRepeats(base_names)
        keyed == [i \in 1..Len(files) |-> [file |-> files[i], key |-> base_names[i]]]
    IN  [k \in 1..Len(keys) |->
            LET members == SelectSeq(keyed, LAMBDA e : e.key = keys[k])
            IN  [base_name |-> keys[k],
                 files |-> [n \in 1..Len(members) |-> members[n].file]]]

(***************************************************************************)
(* scripts/check_duplicates.py: DuplicateChecker.                          *)
(***************************************************************************)

find_all_cpp_files(files) ==
    SelectSeq(  Rglob(files, Lit["src"], Lit[".cpp"])
             \o Rglob(files, Lit["include"], Lit[".cpp"])
             \o Rglob(files, Lit["src"], Lit[".h"])
             \o Rglob(files, Lit["include"], Lit[".h"])
             \o Rglob(files, Lit["src"], Lit[".hpp"])
             \o Rglob(files, Lit["include"], Lit[".hpp"]),
             LAMBDA f : ~Excluded(f))

find_similar_filenames(files) ==
    SelectSeq(GroupBy(files, [i \in 1..Len(files) |-> similar_base_name(files[i].stem)]),
              LAMBDA g : Len(g.files) > 1)

\* The pairs (i, j), i < j, of a group in the order of the two loops.
RECURSIVE PairsFrom(_, _, _)
PairsFrom(n, i, j) ==
    IF i >= n THEN <<>>
    ELSE IF j > n THEN PairsFrom(n, i + 1, i + 2)
    ELSE << <<i, j>> >> \o PairsFrom(n, i, j + 1)

\* analyze_file_content_similarity that reports every pair it compares.
analyze_file_content_similarity_all(file_groups) ==
    LET group_report(g) ==
            LET pairs == SelectSeq(PairsFrom(Len(g.files), 1, 2), LAMBDA p :
                            g.files[p[1]].readable /\ g.files[p[2]].readable)
            IN  [base_name |-> g.base_name,
                 files |-> [k \in 1..Len(g.files) |-> StrPath(g.files[k])],
                 similarities |-> [k \in 1..Len(pairs) |->
                    [file1 |-> StrPath(g.files[pairs[k][1]]),
                     file2 |-> StrPath(g.files[pairs[k][2]]),
                     similarity |-> calculate_similarity(g.files[pairs[k][1]].content,
                                                         g.files[pairs[k][2]].content)]]]
        reports == [k \in 1..Len(file_groups) |-> group_report(file_groups[k])]
    IN  SelectSeq(reports, LAMBDA r : r.similarities # <<>>)

analyze_file_content_similarity(file_groups) ==
    LET group_report(g) ==
            LET pairs == SelectSeq(PairsFrom(Len(g.files), 1, 2), LAMBDA p :
                            g.files[p[1]].readable /\ g.files[p[2]].readable)
                scored == [k \in 1..Len(pairs) |->
                    [file1 |-> StrPath(g.files[pairs[k][1]]),
                     file2 |-> StrPath(g.files[pairs[k][2]]),
                     similarity |-> calculate_similarity(g.files[pairs[k][1]].content,
                                                         g.files[pairs[k][2]].content)]]
            IN  [base_name |-> g.base_name,
                 files |-> [k \in 1..Len(g.files) |-> StrPath(g.files[k])],
                 similarities |->
                    SelectSeq(scored, LAMBDA e :
                        e.similarity.den < 2 * e.similarity.num)]
        reports == [k \in 1..Len(file_groups) |-> group_report(file_groups[k])]
    IN  SelectSeq(reports, LAMBDA r : r.similarities # <<>>)

RECURSIVE WordRunEnd(_, _)
\* One past the end of the run of word characters of s that starts at i.
WordRunEnd(s, i) ==
    IF i <= Len(s) /\ s[i] \in WordChars THEN WordRunEnd(s, i + 1) ELSE i

RECURSIVE FindCppNames(_, _)
\* re.findall(r'(\w+\.cpp)', content) from position i on.
FindCppNames(s, i) ==
    IF i > Len(s) THEN <<>>
    ELSE IF s[i] \in WordChars /\ IsAt(s, Lit[".cpp"], WordRunEnd(s, i))
         THEN <<SubSeq(s, i, WordRunEnd(s, i) + 3)>> \o FindCppNames(s, WordRunEnd(s, i) + 4)
    ELSE FindCppNames(s, i + 1)

ManifestPath(m) == m.dir \o Lit["/"] \o Lit["CMakeLists.txt"]

\* DuplicateChecker.check_cmake_usage: file name -> the manifests naming it,
\* one entry per mention.
Dup_check_cmake_usage(cmake_files) ==
    LET mentions == Flatten([k \in 1..Len(cmake_files) |->
            LET names == IF cmake_files[k].readable
                         THEN FindCppNames(cmake_files[k].content, 1) ELSE <<>>
            IN  [n \in 1..Len(names) |->
                    [name |-> names[n], manifest |-> ManifestPath(cmake_files[k])]]])
    IN  [name \in {e.name : e \in Range(mentions)} |->
            LET of == SelectSeq(mentions, LAMBDA e : e.name = name)
            IN  [n \in 1..Len(of) |-> of[n].manifest]]

\* generate_recommendations, its first loop: the files of the groups whose
\* name is no key of cmake_usage.
generate_recommendations(similar_files, cmake_usage) ==
    LET members == Flatten([k \in 1..Len(similar_files) |-> similar_files[k].files])
        unused == SelectSeq(members, LAMBDA f : FileName(f) \notin DOMAIN cmake_usage)
    IN  [k \in 1..Len(unused) |-> [kind |-> "remove", path |-> StrPath(unused[k])]]

\* DuplicateChecker.generate_report: the entries of the report that come from
\* the file names, the similarity of contents and the build manifests.  The
\* entries on duplicate functions and classes, empty for contents that hold
\* no "{", are not part of this report value.
Dup_report_from(total_files, similar_files, similarity_analysis, cmake_usage) ==
    [summary |-> [total_files |-> total_files,
                  similar_filename_groups |-> Len(similar_files),
                  files_with_high_similarity |-> Len(similarity_analysis)],
     similar_filenames |->
        [k \in 1..Len(similar_files) |->
            [base_name |-> similar_files[k].base_name,
             files |-> [n \in 1..Len(similar_files[k].files) |->
                          StrPath(similar_files[k].files[n])]]],
     content_similarity |-> similarity_analysis,
     cmake_usage |-> cmake_usage,
     recommendations |-> generate_recommendations(similar_files, cmake_usage)]

\* generate_report from the groups of similar file names.
Dup_report_of(total_files, similar_files, cmake_files) ==
    Dup_report_from(total_files, similar_files,
                    analyze_file_content_similarity(similar_files),
                    Dup_check_cmake_usage(cmake_files))

\* generate_report from all_files.
Dup_report(all_files, cmake_files) ==
    Dup_report_of(Len(all_files), find_similar_filenames(all_files), cmake_files)

Dup_generate_report(files, cmake_files) ==
    Dup_report(find_all_cpp_files(files), cmake_files)

(***************************************************************************)
(* scripts/check_implementation_duplicates.py:                             *)
(* ImplementationDuplicateChecker.                                         *)
(***************************************************************************)

\* find_implementation_files that keeps the groups of one file.
find_implementation_files_all(files) ==
    LET kept == SelectSeq(Rglob(files, Lit["src"], Lit[".cpp"]), LAMBDA f : ~Excluded(f))
    IN  GroupBy(kept, [i \in 1..Len(kept) |-> impl_base_name(kept[i].stem)])

find_implementation_files(files) ==
    LET kept == SelectSeq(Rglob(files, Lit["src"], Lit[".cpp"]), LAMBDA f : ~Excluded(f))
    IN  SelectSeq(GroupBy(kept, [i \in 1..Len(kept) |-> impl_base_name(kept[i].stem)]),
                  LAMBDA g : Len(g.files) > 1)

\* ImplementationDuplicateChecker.check_cmake_usage: the manifests whose text
\* holds the file name.
Impl_check_cmake_usage(f, cmake_files) ==
    LET hits == SelectSeq(cmake_files, LAMBDA m :
                    m.readable /\ Contains(m.content, FileName(f)))
    IN  [k \in 1..Len(hits) |-> ManifestPath(hits[k])]

\* The first position from i on that holds no whitespace.
SkipWhitespace(s, i) ==
    LET skip[p \in Nat] ==
            IF p <= Len(s) /\ s[p] \in Whitespace THEN skip[p + 1] ELSE p
    IN  skip[i]

NoMatch == [matched |-> FALSE]

\* func_pattern, (?:\w+\s+)*(\w+)\s*\( at i: the last word before the
\* parenthesis and the position after the parenthesis.
NameBeforeParen(s, i) ==
    LET name_at[p \in Nat] ==
            LET j == WordRunEnd(s, p)
                k == SkipWhitespace(s, j)
            IN  IF j = p THEN NoMatch
                ELSE IF k <= Len(s) /\ s[k] = Lit["("][1]
                     THEN [matched |-> TRUE, name |-> SubSeq(s, p, j - 1), next |-> k + 1]
                ELSE IF k > j /\ k <= Len(s) /\ s[k] \in WordChars
                     THEN name_at[k]
                ELSE NoMatch
    IN  name_at[i]

\* The position of the first ")" from i on, Len(s) + 1 when there is none.
ClosingParen(s, i) ==
    IF \E c \in i..Len(s) : s[c] = Lit[")"][1]
    THEN CHOOSE c \in i..Len(s) : s[c] = Lit[")"][1] /\ \A d \in i..(c - 1) : s[d] # Lit[")"][1]
    ELSE Len(s) + 1

\* func_pattern, an optional word and the whitespace after it, (?:const\s*)?
\* or (?:override\s*)?, at i: the position after it.
SkipWord(s, word, i) ==
    IF IsAt(s, word, i) THEN SkipWhitespace(s, i + Len(word)) ELSE i

\* func_pattern, (?:\{|;) at i: the match of a function called name.
FuncEnd(s, name, i) ==
    IF i <= Len(s) /\ s[i] \in {Lit["{"][1], Lit[";"][1]}
    THEN [matched |-> TRUE, name |-> name, next |-> i + 1]
    ELSE NoMatch

\* func_pattern, [^)]*\)\s*(?:const\s*)?(?:override\s*)?(?:\{|;) from i on.
FuncTail(s, name, i) ==
    IF ClosingParen(s, i) > Len(s) THEN NoMatch
    ELSE FuncEnd(s, name,
                 SkipWord(s, Lit["override"],
                          SkipWord(s, Lit["const"],
                                   SkipWhitespace(s, ClosingParen(s, i) + 1))))

\* func_pattern after the name and its parenthesis.
FuncAfter(s, head) ==
    IF head.matched THEN FuncTail(s, head.name, head.next) ELSE NoMatch

\* func_pattern matched at the start of a line: the name and the position
\* after the match.
FuncMatchAt(s, i) == FuncAfter(s, NameBeforeParen(s, SkipWhitespace(s, i)))

\* finditer: the names of the matches from i on, found[p] the match at p; a
\* match starts at the start of a line only and the search goes on after it.
Finditer(s, found, i) ==
    LET matches[p \in Nat] ==
            IF p > Len(s) THEN <<>>
            ELSE IF (p = 1 \/ s[p - 1] = "\n") /\ found[p].matched
                 THEN <<found[p].name>> \o matches[found[p].next]
            ELSE matches[p + 1]
    IN  matches[i]

\* func_pattern.finditer(content) from i on.
FuncMatches(s, i) == Finditer(s, [p \in 1..Len(s) |-> FuncMatchAt(s, p)], i)

\* The names the list comprehension of analyze_file_contents drops.
control_keywords == {Lit["if"], Lit["for"], Lit["while"], Lit["switch"], Lit["catch"]}

\* analyze_file_contents: functions.
extract_function_names(content) ==
    SelectSeq(FuncMatches(content, 1), LAMBDA n : n \notin control_keywords)

\* analyze_file_contents: has_not_implemented.
has_not_implemented(content) ==
    Contains(Lower(content), Lit["throw.*not.*implemented"])

\* analyze_file_contents: the keys of the result that the report's rules
\* read; a file that cannot be read gives {'error': ...}, for which
\* f.get('has_not_implemented') is None.
analyze_file_contents(f) ==
    IF f.readable
    THEN [functions |-> extract_function_names(f.content),
          has_not_implemented |-> has_not_implemented(f.content),
          error |-> FALSE]
    ELSE [functions |-> <<>>, has_not_implemented |-> FALSE, error |-> TRUE]

None == <<"None">>

\* The test of the main-file loop: no suffix occurs in the file name.
Undecorated(name) ==
    ~\E k \in 1..Len(duplicate_suffixes) : Contains(name, duplicate_suffixes[k])

\* The first entry of a list that satisfies a test, None when there is none.
FirstName(infos, passes) ==
    IF \E i \in 1..Len(infos) : passes[i]
    THEN infos[CHOOSE i \in 1..Len(infos) :
                  passes[i] /\ \A k \in 1..(i - 1) : ~passes[k]].name
    ELSE None

\* generate_report: likely_main_file of a group's file entries.
likely_main_file(infos) ==
    LET undecorated == [i \in 1..Len(infos) |-> Undecorated(infos[i].name)]
        used == [i \in 1..Len(infos) |-> infos[i].cmake_usage # <<>>]
        main_file == FirstName(infos, undecorated)
    IN  IF main_file = None THEN FirstName(infos, used) ELSE main_file

\* generate_report: the recommendations of a group.
group_recommendations(infos, main_file) ==
    LET told == SelectSeq(infos, LAMBDA f :
                    \/ (f.cmake_usage = <<>> /\ f.name # main_file)
                    \/ f.has_not_implemented)
    IN  [k \in 1..Len(told) |->
            IF told[k].cmake_usage = <<>> /\ told[k].name # main_file
            THEN [kind |-> "remove", path |-> told[k].path]
            ELSE [kind |-> "complete", path |-> told[k].path]]

\* generate_report: the entry of a group, from its file entries and its
\* likely_main_file.
group_entry(base_name, infos, main_file) ==
    [base_name |-> base_name,
     files |-> infos,
     likely_main_file |-> main_file,
     recommendations |-> group_recommendations(infos, main_file)]

\* generate_report: the entry of a file, file_info.update(analysis).
file_info(f, cmake_files) ==
    analyze_file_contents(f)
        @@ [path |-> PathStr(f),
            name |-> FileName(f),
            cmake_usage |-> Impl_check_cmake_usage(f, cmake_files)]

\* generate_report: group_info of the files of a group in sorted order.
group_info(base_name, sorted, cmake_files) ==
    group_entry(base_name,
                [k \in 1..Len(sorted) |-> file_info(sorted[k], cmake_files)],
                likely_main_file([k \in 1..Len(sorted) |-> file_info(sorted[k], cmake_files)]))

\* generate_report: the report of groups in sorted order.
report_of(by_name, cmake_files) ==
    [summary |->
        [total_duplicate_groups |-> Len(by_name),
         total_duplicate_files |->
            SumOver([k \in 1..Len(by_name) |-> Len(by_name[k].files)], 1..Len(by_name))],
     duplicates |->
        [k \in 1..Len(by_name) |->
            group_info(by_name[k].base_name, SortSeq(by_name[k].files, PathLess),
                       cmake_files)]]

Impl_generate_report(files, cmake_files) ==
    report_of(SortSeq(find_implementation_files(files),
                      LAMBDA g, h : StrLess(g.base_name, h.base_name)),
              cmake_files)

\* A source file <root>/<dir>/<stem><ext> with its content, and whether
\* read_text succeeds on it; the project root is the default of
\* --project-root.
SourceFile(root, dir, stem, ext, content, readable) ==
    [project_root |-> <<".">>, root |-> root, dir |-> dir, stem |-> stem, ext |-> ext,
     content |-> content, readable |-> readable]

\* The file f of a checkout at another project root.
FileUnder(project_root, f) == [f EXCEPT !.project_root = project_root]

\* The candidate source files a run may find: the variants of a unit in
\* two directories.
VariantsPool ==
    { SourceFile(Lit["src"], Txt["a"], Txt["widget"], Lit[".cpp"], Txt["a b"], TRUE),
      SourceFile(Lit["src"], Txt["b"], Txt["widget"], Lit[".cpp"], Txt["a c"], TRUE),
      SourceFile(Lit["src"], Txt["a"], Txt["widget_fixed"], Lit[".cpp"], Txt["a b"], TRUE),
      SourceFile(Lit["src"], Txt["b"], Txt["gadget_old"], Lit[".cpp"], Txt["a c"], TRUE),
      SourceFile(Lit["src"], Txt["a"], Txt["gadget_new"], Lit[".cpp"],
                 Lit["throw.*not.*implemented"], TRUE) }

\* Variants beside a header of the include tree and a file whose path holds
\* "test".
HeadersPool ==
    { SourceFile(Lit["src"], Txt["b"], Txt["gadget_old"], Lit[".cpp"], Txt["a c"], TRUE),
      SourceFile(Lit["src"], Txt["a"], Txt["gadget_new"], Lit[".cpp"],
                 Lit["throw.*not.*implemented"], TRUE),
      SourceFile(Lit["include"], Txt["a"], Txt["gadget"], Lit[".h"], Txt["a b"], TRUE),
      SourceFile(Lit["src"], Txt["b"], Txt["latest"], Lit[".cpp"], Txt["a b"], TRUE) }

\* A unit beside a stub that throws, a variant that declares a function and
\* a variant that cannot be read.
StubsPool ==
    { SourceFile(Lit["src"], Txt["a"], Txt["widget"], Lit[".cpp"], Txt["a b"], TRUE),
      SourceFile(Lit["src"], Txt["a"], Txt["widget_complete"], Lit[".cpp"],
                 Txt["throw not implemented"], TRUE),
      SourceFile(Lit["src"], Txt["a"], Txt["widget_minimal"], Lit[".cpp"],
                 Txt["int f();"], TRUE),
      SourceFile(Lit["src"], Txt["b"], Txt["widget_old"], Lit[".cpp"], Txt["a b"], FALSE) }

\* Two variants of a unit in a checkout at /builds/neo, where a build
\* runner clones the project.
BuildsPool ==
    { FileUnder(Txt["/builds/neo"],
                SourceFile(Lit["src"], Txt["a"], Txt["widget"], Lit[".cpp"], Txt["a b"], TRUE)),
      FileUnder(Txt["/builds/neo"],
                SourceFile(Lit["src"], Txt["a"], Txt["widget_fixed"], Lit[".cpp"], Txt["a b"],
                           TRUE)) }

SourcePools == {VariantsPool, HeadersPool, StubsPool, BuildsPool}

\* A build manifest <dir>/CMakeLists.txt with its content, and whether
\* read_text succeeds on it.
Manifest(dir, content, readable) ==
    [dir |-> dir, content |-> content, readable |-> readable]

\* The build manifests a run may find.
ManifestPool ==
    { Manifest(Txt["a"], Txt["widget_fixed.cpp widget_complete.cpp gadget_new.cpp"], TRUE),
      Manifest(Txt["b"], Txt["widget.cpp gadget_old.cpp"], TRUE) }

\* A manifest that names other files, whose names hold or end with the name
\* of a candidate file.
LongerNamesPool ==
    { Manifest(Txt["c"], Txt["mywidget.cpp my-gadget_old.cpp"], TRUE) }

\* A manifest that cannot be read.
LockedManifestPool ==
    { Manifest(Txt["a"], Txt["widget.cpp gadget_old.cpp"], FALSE) }

ManifestPools == {ManifestPool, LongerNamesPool, LockedManifestPool}

\* How many source files a run finds.
MaxFiles == 4

\* The orders in which rglob can yield at most n files of the tree: no file
\* twice, the files of one directory one after the other.
TreeOrders(pool, n) ==
    {w \in InjectiveSeqs(pool, n) :
        \A i, j, k \in 1..Len(w) :
            i < j /\ j < k /\ w[i].root = w[k].root /\ w[i].dir = w[k].dir
                => w[j].root = w[i].root /\ w[j].dir = w[i].dir}

\* src_exists: whether the project root holds the directories the checkers
\* scan; rglob under a directory that does not exist yields nothing.
DupStart ==
    /\ src_exists \in BOOLEAN
    /\ walk \in IF src_exists
                THEN UNION {TreeOrders(pool, MaxFiles) : pool \in SourcePools}
                ELSE {<<>>}
    /\ manifests \in UNION {InjectiveSeqs(pool, Cardinality(pool)) : pool \in ManifestPools}
    /\ dupPc = "start"
    /\ dupReport = NoReport
    /\ implPc = "start"
    /\ implReport = NoReport

DupGenerateReport ==
    /\ dupPc = "start"
    /\ dupReport' = Dup_generate_report(walk, manifests)
    /\ dupPc' = "done"
    /\ UNCHANGED <<src_exists, walk, manifests, implPc, implReport, simVars, normVars, covVars, utVars, fnVars, cvVars, tcVars>>

ImplGenerateReport ==
    /\ implPc = "start"
    /\ implReport' = Impl_generate_report(walk, manifests)
    /\ implPc' = "done"
    /\ UNCHANGED <<src_exists, walk, manifests, dupPc, dupReport, simVars, normVars, covVars, utVars, fnVars, cvVars, tcVars>>

DupNext == DupGenerateReport \/ ImplGenerateReport

InitDup == DupStart /\ SimIdle /\ NormIdle /\ CovIdle /\ UtIdle /\ FnIdle /\ CvIdle /\ TcIdle

SpecDup == InitDup /\ [][DupNext]_vars

(***************************************************************************)
(* scripts/check_unit_test_coverage.py: UnitTestCoverageChecker.           *)
(***************************************************************************)

\* A test project directory of the reference tests with the .cs files below
\* it, each with the methods the pattern finds in it.
CsProject(dir, files) == [dir |-> dir, files |-> files]

\* A .cpp file below tests/unit or tests/integration: the directory it lies
\* in, relative to that tree (empty for the tree itself), and the
\* (class, name) pairs the pattern finds in it.
CppTest(tree, parent, name, cases, readable) ==
    [tree |-> tree, parent |-> parent, name |-> name, cases |-> cases,
     readable |-> readable]

\* find_csharp_test_files: module_name of a project directory.
cs_module_name(dir) ==
    Remove(Remove(Remove(dir, Lit[".Tests"]), Lit["Neo."]), Lit["Plugins."])

\* find_csharp_test_files: the file filter.
UtCsSelected(f) ==
    /\ EndsWith(f.name, Lit[".cs"])
    /\ (StartsWith(f.name, Lit["UT_"]) \/ Contains(f.name, Lit["Test"]))

\* A dictionary of modules as the list of its values in insertion order: an
\* assignment to a key it holds replaces the value and keeps the position.
ModuleDict(entries) ==
    LET names == WithoutRepeats([k \in 1..Len(entries) |-> entries[k].name])
    IN  [n \in 1..Len(names) |->
            entries[CHOOSE k \in 1..Len(entries) :
                       /\ entries[k].name = names[n]
                       /\ \A later \in (k + 1)..Len(entries) : entries[later].name # names[n]]]

\* find_csharp_test_files: the TestModule of a project directory.
cs_module(project) ==
    [name |-> cs_module_name(project.dir),
     test_files |-> Len(SelectSeq(project.files, UtCsSelected)),
     test_methods |->
        UNION {Range(f.methods) :
                  f \in {g \in Range(project.files) : UtCsSelected(g) /\ g.readable}}]

\* find_csharp_test_files: the directories whose name holds ".Tests", each
\* with a test file, by module name.
find_csharp_test_files(projects) ==
    ModuleDict(SelectSeq([k \in 1..Len(projects) |->
                             IF Contains(projects[k].dir, Lit[".Tests"])
                             THEN cs_module(projects[k])
                             ELSE [name |-> <<>>, test_files |-> 0, test_methods |-> {}]],
                         LAMBDA m : m.test_files > 0))

\* find_cpp_test_files: the file filters of the two trees.
UtCppSelected(f) ==
    /\ EndsWith(f.name, Lit[".cpp"])
    /\ \/ Contains(f.name, Lit["test_"])
       \/ (f.tree = "unit" /\ Contains(f.name, Lit["_test"]))

\* find_cpp_test_files: module_name of a file.
cpp_module_name(f) ==
    IF f.tree = "integration" THEN Lit["integration"]
    ELSE IF f.parent = <<>> THEN Lit["core"]
    ELSE [i \in 1..Len(f.parent) |-> IF f.parent[i] = "/" THEN "_" ELSE f.parent[i]]

\* The test names "class.name" of a file that can be read.
cpp_test_names(f) ==
    IF f.readable
    THEN {f.cases[k][1] \o <<".">> \o f.cases[k][2] : k \in 1..Len(f.cases)}
    ELSE {}

\* find_cpp_test_files: the files of tests/unit, then those of
\* tests/integration, each added to its module.
find_cpp_test_files(files) ==
    LET kept == SelectSeq(files, LAMBDA f : f.tree = "unit" /\ UtCppSelected(f))
                \o SelectSeq(files, LAMBDA f : f.tree = "integration" /\ UtCppSelected(f))
        names == WithoutRepeats([k \in 1..Len(kept) |-> cpp_module_name(kept[k])])
    IN  [n \in 1..Len(names) |->
            [name |-> names[n],
             test_files |-> Cardinality({k \in 1..Len(kept) :
                                            cpp_module_name(kept[k]) = names[n]}),
             test_methods |->
                UNION {cpp_test_names(kept[k]) :
                          k \in {j \in 1..Len(kept) : cpp_module_name(kept[j]) = names[n]}}]]

\* _modules_equivalent: the table of common mappings.
module_mappings ==
    << <<Lit["unittests"], Lit["core"]>>, <<Lit["vm"], Lit["vm"]>>,
       <<Lit["cryptographybls12381"], Lit["cryptography_bls12_381"]>>,
       <<Lit["extensions"], Lit["extensions"]>>, <<Lit["json"], Lit["json"]>>,
       <<Lit["consoleservice"], Lit["console_service"]>>,
       <<Lit["rpcclient"], Lit["rpc_client"]>>, <<Lit["dbftplugin"], Lit["consensus"]>>,
       <<Lit["rpcserver"], Lit["rpc_server"]>> >>

_modules_equivalent(csharp_name, cpp_name) ==
    LET csharp_normalized == Remove(Remove(Lower(csharp_name), Lit["neo."]), Lit["plugins."])
        cpp_normalized == Remove(Remove(Lower(cpp_name), Lit["neo_"]), Lit["_"])
    IN  \/ csharp_normalized = cpp_normalized
        \/ \E k \in 1..Len(module_mappings) :
              /\ module_mappings[k][1] = csharp_normalized
              /\ module_mappings[k][2] = cpp_normalized

\* test.split('.')[-1]
LastPart(s) ==
    IF \E i \in 1..Len(s) : s[i] = "."
    THEN SubSeq(s, 1 + CHOOSE i \in 1..Len(s) :
                        s[i] = "." /\ \A j \in (i + 1)..Len(s) : s[j] # ".", Len(s))
    ELSE s

_tests_equivalent(csharp_test, cpp_test) ==
    tests_equivalent_normalized(LastPart(csharp_test))
        = tests_equivalent_normalized(LastPart(cpp_test))

\* The index of the first TRUE of bs, 0 when there is none.
FirstTrue(bs) ==
    IF \E k \in 1..Len(bs) : bs[k]
    THEN CHOOSE k \in 1..Len(bs) : bs[k] /\ \A j \in 1..(k - 1) : ~bs[j]
    ELSE 0

\* analyze_coverage_gaps: the first module of cpp_modules equivalent to a
\* reference module, 0 when there is none.
cpp_equivalent(csharp_module, cpp_modules) ==
    FirstTrue([k \in 1..Len(cpp_modules) |->
                  _modules_equivalent(csharp_module.name, cpp_modules[k].name)])

\* analyze_coverage_gaps: missing_in_module; the list is in the iteration
\* order of a set, so it is held as the set of its entries.
missing_in_module(csharp_module, cpp_module) ==
    {t \in csharp_module.test_methods :
        ~\E c \in cpp_module.test_methods : _tests_equivalent(t, c)}

\* analyze_coverage_gaps: cpp_equivalent of each reference module in turn.
equivalents(csharp_modules, cpp_modules) ==
    [k \in 1..Len(csharp_modules) |-> cpp_equivalent(csharp_modules[k], cpp_modules)]

\* analyze_coverage_gaps: missing_modules, given the equivalents.
missing_modules(csharp_modules, found) ==
    LET gone == SelectSeq(csharp_modules,
                          LAMBDA m : \E k \in 1..Len(found) :
                                        csharp_modules[k] = m /\ found[k] = 0)
    IN  [k \in 1..Len(gone) |-> gone[k].name]

\* analyze_coverage_gaps: missing_in_module of each reference module that has
\* an equivalent, {} for the others.
module_gaps(csharp_modules, cpp_modules, found) ==
    [k \in 1..Len(csharp_modules) |->
        IF found[k] = 0 THEN {}
        ELSE missing_in_module(csharp_modules[k], cpp_modules[found[k]])]

\* analyze_coverage_gaps: missing_tests, the modules with missing_in_module
\* not empty.
missing_tests(csharp_modules, gaps) ==
    [name \in {csharp_modules[k].name : k \in {j \in 1..Len(gaps) : gaps[j] # {}}} |->
        gaps[CHOOSE k \in 1..Len(gaps) : csharp_modules[k].name = name]]

\* analyze_coverage_gaps, given the equivalents.
gaps_of(csharp_modules, cpp_modules, found) ==
    [missing_modules |-> missing_modules(csharp_modules, found),
     missing_tests |->
        missing_tests(csharp_modules, module_gaps(csharp_modules, cpp_modules, found))]

analyze_coverage_gaps(csharp_modules, cpp_modules) ==
    gaps_of(csharp_modules, cpp_modules, equivalents(csharp_modules, cpp_modules))

\* run_coverage_check: the exit code of a coverage figure.
exit_code(coverage) ==
    IF coverage.num >= 80 * coverage.den THEN 0
    ELSE IF coverage.num >= 50 * coverage.den THEN 1
    ELSE 2

\* run_coverage_check: coverage_summary from the modules and the gaps.
coverage_summary(total_csharp_tests, total_cpp_tests, gone, gaps) ==
    [total_csharp_tests |-> total_csharp_tests,
     total_cpp_tests |-> total_cpp_tests,
     missing_count |->
        Len(gone) + SumOver([name \in DOMAIN gaps |-> Cardinality(gaps[name])], DOMAIN gaps),
     coverage_percentage |->
        IF total_csharp_tests > 0
        THEN Ratio(total_cpp_tests * 100, total_csharp_tests) ELSE Zero]

\* The total of len(mod.test_methods) over the modules.
TotalTests(modules) ==
    SumOver([k \in 1..Len(modules) |-> Cardinality(modules[k].test_methods)],
            1..Len(modules))

\* run_coverage_check: results, from the modules the two finders return and
\* the gaps analyze_coverage_gaps has stored.
results_of(csharp_modules, cpp_modules, gaps) ==
    [csharp_modules |-> [k \in 1..Len(csharp_modules) |->
        [name |-> csharp_modules[k].name, files |-> csharp_modules[k].test_files,
         tests |-> Cardinality(csharp_modules[k].test_methods)]],
     cpp_modules |-> [k \in 1..Len(cpp_modules) |->
        [name |-> cpp_modules[k].name, files |-> cpp_modules[k].test_files,
         tests |-> Cardinality(cpp_modules[k].test_methods)]],
     missing_modules |-> gaps.missing_modules,
     missing_tests |-> gaps.missing_tests,
     coverage_summary |->
        coverage_summary(TotalTests(csharp_modules), TotalTests(cpp_modules),
                         gaps.missing_modules, gaps.missing_tests)]

coverage_results(csharp_modules, cpp_modules) ==
    results_of(csharp_modules, cpp_modules,
               analyze_coverage_gaps(csharp_modules, cpp_modules))

run_coverage_check(projects, files) ==
    coverage_results(find_csharp_test_files(projects), find_cpp_test_files(files))

\* The test projects a run may find under neo_csharp/tests.
CsProjectPool ==
    { CsProject(Txt["Neo.Json.Tests"],
                <<CsFile(<<>>, Txt["UT_JArray.cs"], <<Txt["TestAdd"], Txt["TestClear"]>>, TRUE)>>),
      CsProject(Txt["Neo.VM.Tests"],
                <<CsFile(<<>>, Txt["UT_Script.cs"], <<Txt["TestParse"]>>, TRUE),
                  CsFile(<<>>, Txt["notes.cs"], <<Txt["TestAdd"]>>, TRUE)>>),
      CsProject(Txt["Neo.Plugins.RpcServer.Tests"],
                <<CsFile(<<>>, Txt["UT_RpcServer.cs"], <<Txt["TestStart"]>>, TRUE)>>),
      CsProject(Txt["docs"],
                <<CsFile(<<>>, Txt["UT_A.cs"], <<Txt["TestAdd"]>>, TRUE)>>) }

\* The .cpp files a run may find under tests/unit and tests/integration.
CppTestPool ==
    { CppTest("unit", Txt["json"], Txt["test_jarray.cpp"],
              << <<Txt["JArray"], Txt["Add"]>>, <<Txt["JArray"], Txt["Clear"]>>,
                 <<Txt["JArray"], Txt["Extra"]>> >>, TRUE),
      CppTest("unit", Txt["vm"], Txt["script_test.cpp"],
              << <<Txt["Script"], Txt["Foo"]>> >>, TRUE),
      CppTest("unit", <<>>, Txt["test_helper.cpp"],
              << <<Txt["Helper"], Txt["Hash"]>> >>, TRUE),
      CppTest("unit", Txt["json"], Txt["helper.cpp"],
              << <<Txt["Helper"], Txt["Clear"]>> >>, TRUE),
      CppTest("integration", <<>>, Txt["test_node.cpp"],
              << <<Txt["Node"], Txt["Start"]>> >>, TRUE) }

\* How many test projects and candidate test files a run finds.
MaxProjects == 2
MaxTests == 2

UtStart ==
    /\ utProjects \in InjectiveSeqs(CsProjectPool, MaxProjects)
    /\ utFiles \in InjectiveSeqs(CppTestPool, MaxTests)
    /\ utPc = "start"
    /\ utResults = NoReport
    /\ utExit = 0

RunCoverageCheck ==
    /\ utPc = "start"
    /\ utResults' = run_coverage_check(utProjects, utFiles)
    /\ utExit' = exit_code(utResults'.coverage_summary.coverage_percentage)
    /\ utPc' = "done"
    /\ UNCHANGED <<utProjects, utFiles, simVars, normVars, covVars, dupVars, fnVars, cvVars, tcVars>>

InitUt == UtStart /\ SimIdle /\ NormIdle /\ CovIdle /\ DupIdle /\ FnIdle /\ CvIdle /\ TcIdle

SpecUt == InitUt /\ [][RunCoverageCheck]_vars

(***************************************************************************)
(* DuplicateChecker.extract_functions, src/scripts/check_duplicates.py:    *)
(* function_pattern with the matching order of the regular expression      *)
(* engine.  Every quantifier of the pattern is greedy, so the positions a  *)
(* piece of the pattern can end at are listed in the order the engine      *)
(* tries them, longest first, and the first complete match wins.           *)
(***************************************************************************)

\* The positions from hi down to lo.
Descending(hi, lo) == [k \in 1..(hi - lo + 1) |-> hi + 1 - k]

\* \s* after each of the positions ps.
AfterWhitespace(s, ps) ==
    Flatten([k \in 1..Len(ps) |-> Descending(SkipWhitespace(s, ps[k]), ps[k])])

\* (?:word\s+)? after each of the positions ps when least = 1, and
\* (?:word\s*)? when least = 0: the word taken first, then left out.
AfterOptWord(s, word, ps, least) ==
    Flatten([k \in 1..Len(ps) |->
        (IF IsAt(s, word, ps[k])
         THEN Descending(SkipWhitespace(s, ps[k] + Len(word)),
                         ps[k] + Len(word) + least)
         ELSE <<>>) \o <<ps[k]>>])

\* One past the end of the run of [\w:] characters of s that starts at i.
TypeRunEnd(s, i) ==
    LET run[p \in Nat] ==
            IF p <= Len(s) /\ s[p] \in WordChars \cup {Lit[":"][1]}
            THEN run[p + 1] ELSE p
    IN  run[i]

\* \s+ after each of the positions ps.
AfterSpaces(s, ps) ==
    Flatten([k \in 1..Len(ps) |-> Descending(SkipWhitespace(s, ps[k]), ps[k] + 1)])

\* (?:[\w:]+\s+)? at i.
OptTypeAt(s, i) ==
    AfterSpaces(s, Descending(TypeRunEnd(s, i), i + 1)) \o <<i>>

\* (?:[\w:]+\s+)? after each of the positions ps.
AfterOptType(s, ps) == Flatten([k \in 1..Len(ps) |-> OptTypeAt(s, ps[k])])

\* ^\s*(?:static\s+)?(?:inline\s+)?(?:virtual\s+)?(?:const\s+)?
\* (?:unsigned\s+)?(?:[\w:]+\s+)? from the start of a line i: the positions
\* the name (\w+) can start at.
NameStarts(s, i) ==
    AfterOptType(s,
        AfterOptWord(s, Lit["unsigned"],
            AfterOptWord(s, Lit["const"],
                AfterOptWord(s, Lit["virtual"],
                    AfterOptWord(s, Lit["inline"],
                        AfterOptWord(s, Lit["static"],
                            AfterWhitespace(s, <<i>>), 1), 1), 1), 1), 1))

\* (\w+) at p: the pairs of p and an end of the name, longest name first.
NamesAt(s, p) == [j \in 1..(WordRunEnd(s, p) - p) |-> <<p, WordRunEnd(s, p) + 1 - j>>]

\* (\w+) at each of the positions ps.
NameCandidates(s, ps) == Flatten([k \in 1..Len(ps) |-> NamesAt(s, ps[k])])

\* The first position of xs that is not 0, 0 when there is none.
FirstNonZero(xs) ==
    IF \E k \in 1..Len(xs) : xs[k] # 0
    THEN xs[CHOOSE k \in 1..Len(xs) : xs[k] # 0 /\ \A j \in 1..(k - 1) : xs[j] = 0]
    ELSE 0

\* \s*\{ at i: the position after the brace, 0 when it does not match.
BraceAfter(s, i) ==
    IF SkipWhitespace(s, i) <= Len(s) /\ s[SkipWhitespace(s, i)] = Lit["{"][1]
    THEN SkipWhitespace(s, i) + 1
    ELSE 0

\* ->.*?\s*\{ at i, where IsAt(s, "->", i): the lazy .*? grows one character
\* of the line at a time.
ArrowTail(s, i) ==
    FirstNonZero([e \in 1..(EndOfLine(s, i + 2) - i - 1) |-> BraceAfter(s, i + 1 + e)])

\* (?:->.*?)?\s*\{ at i: the position after the match, 0 without a match.
ArrowAt(s, i) ==
    IF IsAt(s, Lit["->"], i) /\ ArrowTail(s, i) # 0
    THEN ArrowTail(s, i)
    ELSE BraceAfter(s, i)

\* \s*(?:const\s*)?(?:override\s*)?(?:noexcept\s*)?\s* from i on: the
\* positions the rest of the pattern is tried at.
QualifierEnds(s, i) ==
    AfterWhitespace(s,
        AfterOptWord(s, Lit["noexcept"],
            AfterOptWord(s, Lit["override"],
                AfterOptWord(s, Lit["const"],
                    AfterWhitespace(s, <<i>>), 0), 0), 0))

\* (?:->.*?)?\s*\{ tried at each of the positions ps.
ArrowAfter(s, ps) == FirstNonZero([k \in 1..Len(ps) |-> ArrowAt(s, ps[k])])

\* function_pattern after the closing parenthesis at close.
TailAfterParen(s, close) ==
    IF close > Len(s) THEN 0 ELSE ArrowAfter(s, QualifierEnds(s, close + 1))

\* \s*\([^)]*\) and the rest of function_pattern after a name that ends
\* before q.
TailAfterName(s, q) ==
    IF q <= Len(s) /\ s[q] = Lit["("][1]
    THEN TailAfterParen(s, ClosingParen(s, q + 1))
    ELSE 0

\* function_pattern with the name at pe[1]..(pe[2] - 1).
NameMatch(s, pe, end) ==
    IF end # 0
    THEN [matched |-> TRUE, name |-> SubSeq(s, pe[1], pe[2] - 1), next |-> end]
    ELSE NoMatch

\* The first match among the candidate names.
FirstMatch(ms) ==
    IF \E k \in 1..Len(ms) : ms[k].matched
    THEN ms[CHOOSE k \in 1..Len(ms) : ms[k].matched /\ \A j \in 1..(k - 1) : ~ms[j].matched]
    ELSE NoMatch

\* The candidate names of cs matched against the rest of function_pattern.
CandidateMatches(s, cs) ==
    [k \in 1..Len(cs) |->
        NameMatch(s, cs[k], TailAfterName(s, SkipWhitespace(s, cs[k][2])))]

\* function_pattern matched at the start of a line i.
function_pattern(s, i) ==
    FirstMatch(CandidateMatches(s, NameCandidates(s, NameStarts(s, i))))

\* function_pattern.findall(content)
function_pattern_findall(s) ==
    Finditer(s, [p \in 1..Len(s) |-> function_pattern(s, p)], 1)

\* DuplicateChecker.extract_functions: the set of the names found in the
\* text without its comments, the empty ones and the destructors left out.
extract_functions(content) ==
    Range(SelectSeq(function_pattern_findall(remove_comments(content)),
                    LAMBDA func : func # <<>> /\ func[1] # Lit["~"][1]))

\* find_duplicate_implementations, the functions: the files, numbered in the
\* order read, that each extracted name occurs in.
function_locations(contents) ==
    [func \in UNION {extract_functions(contents[k]) : k \in 1..Len(contents)} |->
        SelectSeq([k \in 1..Len(contents) |-> k],
                  LAMBDA k : func \in extract_functions(contents[k]))]

\* find_duplicate_implementations: the names of duplicate_functions, the
\* names that occur in more than one file.
duplicate_functions(locations) ==
    {func \in DOMAIN locations : Len(locations[func]) > 1}

(***************************************************************************)
(* The files whose functions are extracted.  A text is made of a few       *)
(* pieces of C++; the second file, when there is one, holds one of two     *)
(* fixed definitions.                                                      *)
(***************************************************************************)
FuncPieces == {Lit["if"], <<"f">>, <<" ">>, Lit["("], Lit[")"], Lit["{"]}

MaxFuncParts == 4

FuncContents == Concats(FuncPieces, MaxFuncParts)

SecondContents == {Lit["if"] \o Lit["("] \o Lit[")"] \o Lit["{"],
                   <<"f">> \o Lit["("] \o Lit[")"] \o Lit["{"]}

FnStart ==
    /\ fnWalk \in {<<a>> : a \in FuncContents}
                  \cup {<<a, b>> : a \in FuncContents, b \in SecondContents}
    /\ fnPc = "start"
    /\ fnFunctions = <<>>
    /\ fnNames = <<>>
    /\ fnDuplicates = {}

\* Both checkers read the files: extract_functions and
\* find_duplicate_implementations of check_duplicates.py, and the func_pattern
\* loop of analyze_file_contents of check_implementation_duplicates.py.
ExtractFunctions ==
    /\ fnPc = "start"
    /\ fnFunctions' = [k \in 1..Len(fnWalk) |-> extract_functions(fnWalk[k])]
    /\ fnDuplicates' = duplicate_functions(function_locations(fnWalk))
    /\ fnNames' = [k \in 1..Len(fnWalk) |-> extract_function_names(fnWalk[k])]
    /\ fnPc' = "done"
    /\ UNCHANGED <<fnWalk, simVars, normVars, covVars, dupVars, utVars, cvVars, tcVars>>

InitFn == FnStart /\ SimIdle /\ NormIdle /\ CovIdle /\ DupIdle /\ UtIdle /\ CvIdle /\ TcIdle

SpecFn == InitFn /\ [][ExtractFunctions]_vars
(***************************************************************************)
(* scripts/validate_conversion.py: ConversionValidator.  The two projects  *)
(* are the files the directory scans yield, each <top>/<dir>/<name> with   *)
(* dir the list of the directories between top and the file.               *)
(***************************************************************************)

\* The string literals of validate_conversion.py.
ConversionLit ==
       ("Neo" :> <<"N", "e", "o">>)
    @@ ("Neo.CLI" :> <<"N", "e", "o", ".", "C", "L", "I">>)
    @@ ("cli" :> <<"c", "l", "i">>)
    @@ ("Neo.ConsoleService" :> <<"N", "e", "o", ".", "C", "o", "n", "s", "o", "l", "e", "S", "e", "r", "v", "i", "c", "e">>)
    @@ ("Neo.Cryptography.BLS12_381" :> <<"N", "e", "o", ".", "C", "r", "y", "p", "t", "o", "g", "r", "a", "p", "h", "y", ".", "B", "L", "S", "1", "2", "_", "3", "8", "1">>)
    @@ ("Neo.Cryptography.MPTTrie" :> <<"N", "e", "o", ".", "C", "r", "y", "p", "t", "o", "g", "r", "a", "p", "h", "y", ".", "M", "P", "T", "T", "r", "i", "e">>)
    @@ ("mpttrie" :> <<"m", "p", "t", "t", "r", "i", "e">>)
    @@ ("Neo.Extensions" :> <<"N", "e", "o", ".", "E", "x", "t", "e", "n", "s", "i", "o", "n", "s">>)
    @@ ("Neo.GUI" :> <<"N", "e", "o", ".", "G", "U", "I">>)
    @@ ("gui" :> <<"g", "u", "i">>)
    @@ ("Neo.IO" :> <<"N", "e", "o", ".", "I", "O">>)
    @@ ("Neo.Json" :> <<"N", "e", "o", ".", "J", "s", "o", "n">>)
    @@ ("Neo.Network.RpcClient" :> <<"N", "e", "o", ".", "N", "e", "t", "w", "o", "r", "k", ".", "R", "p", "c", "C", "l", "i", "e", "n", "t">>)
    @@ ("Neo.VM" :> <<"N", "e", "o", ".", "V", "M">>)
    @@ ("Plugins" :> <<"P", "l", "u", "g", "i", "n", "s">>)
    @@ ("plugins" :> <<"p", "l", "u", "g", "i", "n", "s">>)
    @@ ("neo" :> <<"n", "e", "o">>)
    @@ ("tests" :> <<"t", "e", "s", "t", "s">>)
    @@ ("unittest" :> <<"u", "n", "i", "t", "t", "e", "s", "t">>)
    @@ ("UT_" :> <<"U", "T", "_">>)
    @@ ("test_" :> <<"t", "e", "s", "t", "_">>)
    @@ (".cs" :> <<".", "c", "s">>)
    @@ (".cpp" :> <<".", "c", "p", "p">>)
    @@ (".h" :> <<".", "h">>)
    @@ (".hpp" :> <<".", "h", "p", "p">>)
    @@ ("Test" :> <<"T", "e", "s", "t">>)
    @@ ("class" :> <<"c", "l", "a", "s", "s">>)
    @@ ("struct" :> <<"s", "t", "r", "u", "c", "t">>)
    @@ ("src" :> <<"s", "r", "c">>)
    @@ ("include" :> <<"i", "n", "c", "l", "u", "d", "e">>)
    @@ ("." :> <<".">>)
    @@ ("BigDecimal" :> <<"B", "i", "g", "D", "e", "c", "i", "m", "a", "l">>)
    @@ ("UInt160" :> <<"U", "I", "n", "t", "1", "6", "0">>)
    @@ ("UInt256" :> <<"U", "I", "n", "t", "2", "5", "6">>)
    @@ ("NeoSystem" :> <<"N", "e", "o", "S", "y", "s", "t", "e", "m">>)
    @@ ("ProtocolSettings" :> <<"P", "r", "o", "t", "o", "c", "o", "l", "S", "e", "t", "t", "i", "n", "g", "s">>)
    @@ ("Blockchain" :> <<"B", "l", "o", "c", "k", "c", "h", "a", "i", "n">>)
    @@ ("ApplicationEngine" :> <<"A", "p", "p", "l", "i", "c", "a", "t", "i", "o", "n", "E", "n", "g", "i", "n", "e">>)
    @@ ("ExecutionEngine" :> <<"E", "x", "e", "c", "u", "t", "i", "o", "n", "E", "n", "g", "i", "n", "e">>)
    @@ ("InteropService" :> <<"I", "n", "t", "e", "r", "o", "p", "S", "e", "r", "v", "i", "c", "e">>)
    @@ ("core" :> <<"c", "o", "r", "e">>)
    @@ ("console_service" :> <<"c", "o", "n", "s", "o", "l", "e", "_", "s", "e", "r", "v", "i", "c", "e">>)
    @@ ("cryptography" :> <<"c", "r", "y", "p", "t", "o", "g", "r", "a", "p", "h", "y">>)
    @@ ("extensions" :> <<"e", "x", "t", "e", "n", "s", "i", "o", "n", "s">>)
    @@ ("io" :> <<"i", "o">>)
    @@ ("json" :> <<"j", "s", "o", "n">>)
    @@ ("rpc" :> <<"r", "p", "c">>)
    @@ ("vm" :> <<"v", "m">>)
    @@ ("/" :> <<"/">>)

\* self.results as __init__ builds it: no 'critical_missing' yet, an empty
\* summary.
InitialResults ==
    [modules |-> [converted |-> <<>>, missing |-> <<>>, partial |-> <<>>],
     tests |-> [converted |-> <<>>, missing |-> <<>>, partial |-> <<>>],
     files |-> [converted |-> <<>>, missing |-> <<>>],
     summary |-> <<>>]

\* os.path.join(top, dir..., name)
JoinParts(parts) ==
    LET joined[n \in 0..Len(parts)] ==
            IF n = 0 THEN <<>>
            ELSE IF n = 1 THEN parts[1]
            ELSE joined[n - 1] \o ConversionLit["/"] \o parts[n]
    IN  joined[Len(parts)]

\* analyze_csharp_structure: the directories right under top whose name
\* does not start with '.', in the order os.listdir yields them.
TopDirectories(files, top) ==
    LET under == SelectSeq(files, LAMBDA f : f.top = top /\ f.dir # <<>>)
    IN  SelectSeq(WithoutRepeats([k \in 1..Len(under) |-> under[k].dir[1]]),
                  LAMBDA item : ~StartsWith(item, ConversionLit["."]))

\* _analyze_directory(top): the 'subdirs' of the structure, each directory
\* as the list of the names that lead to it.
Subdirs(files, top) ==
    UNION {{SubSeq(f.dir, 1, n) : n \in 1..Len(f.dir)} :
            f \in {g \in Range(files) : g.top = top}}

\* compare_modules: module_mappings, the value as module_path.split('/').
conversion_mappings ==
    << <<ConversionLit["Neo"], <<ConversionLit["core"]>> >>,
       <<ConversionLit["Neo.CLI"], <<ConversionLit["cli"]>> >>,
       <<ConversionLit["Neo.ConsoleService"], <<ConversionLit["console_service"]>> >>,
       <<ConversionLit["Neo.Cryptography.BLS12_381"], <<ConversionLit["cryptography"]>> >>,
       <<ConversionLit["Neo.Cryptography.MPTTrie"],
         <<ConversionLit["cryptography"], ConversionLit["mpttrie"]>> >>,
       <<ConversionLit["Neo.Extensions"], <<ConversionLit["extensions"]>> >>,
       <<ConversionLit["Neo.GUI"], <<ConversionLit["gui"]>> >>,
       <<ConversionLit["Neo.IO"], <<ConversionLit["io"]>> >>,
       <<ConversionLit["Neo.Json"], <<ConversionLit["json"]>> >>,
       <<ConversionLit["Neo.Network.RpcClient"], <<ConversionLit["rpc"]>> >>,
       <<ConversionLit["Neo.VM"], <<ConversionLit["vm"]>> >>,
       <<ConversionLit["Plugins"], <<ConversionLit["plugins"]>> >> >>

\* _module_exists_in_cpp: the parts of module_path lead through 'subdirs'.
_module_exists_in_cpp(parts, cpp_subdirs) == parts \in cpp_subdirs

\* search_recursive: some directory of the structure holds cs_lower in its
\* lowered name.
search_recursive(cs_lower, subdirs) ==
    \E d \in subdirs : Contains(Lower(d[Len(d)]), cs_lower)

_find_similar_module(module, cpp_subdirs) ==
    search_recursive(Remove(Remove(Lower(module), ConversionLit["."]),
                            ConversionLit["neo"]),
                     cpp_subdirs)

_find_cpp_test_equivalent(cs_test, cpp_subdirs) ==
    search_recursive(
        Remove(Remove(Remove(Remove(Lower(cs_test), ConversionLit["."]),
                             ConversionLit["neo"]),
                      ConversionLit["tests"]),
               ConversionLit["unittest"]),
        cpp_subdirs)

\* compare_modules: the list a C# module is appended to.
module_status(module, cpp_subdirs) ==
    IF \E k \in 1..Len(conversion_mappings) : conversion_mappings[k][1] = module
    THEN IF _module_exists_in_cpp(
                conversion_mappings[CHOOSE k \in 1..Len(conversion_mappings) :
                                        conversion_mappings[k][1] = module][2],
                cpp_subdirs)
         THEN "converted" ELSE "missing"
    ELSE IF _find_similar_module(module, cpp_subdirs) THEN "partial" ELSE "missing"

\* The names of a list whose status is the given one, in order.
WithStatus(names, status, wanted) ==
    LET at == SelectSeq([k \in 1..Len(names) |-> k], LAMBDA k : status[k] = wanted)
    IN  [j \in 1..Len(at) |-> names[at[j]]]

\* compare_modules, its first loop: results['modules'][...].append(cs_module)
append_modules(results, names, status) ==
    [results EXCEPT !.modules =
        [converted |-> @.converted \o WithStatus(names, status, "converted"),
         missing |-> @.missing \o WithStatus(names, status, "missing"),
         partial |-> @.partial \o WithStatus(names, status, "partial")]]

\* compare_modules, its second loop: results['tests'][...].append(cs_test)
append_tests(results, names, status) ==
    [results EXCEPT !.tests =
        [converted |-> @.converted \o WithStatus(names, status, "converted"),
         missing |-> @.missing \o WithStatus(names, status, "missing"),
         partial |-> @.partial]]

\* compare_modules over the modules and the test projects found.
compare_lists(results, cs_modules, cs_tests, cpp_modules, cpp_tests) ==
    append_tests(
        append_modules(results, cs_modules,
                       [k \in 1..Len(cs_modules) |-> module_status(cs_modules[k], cpp_modules)]),
        cs_tests,
        [k \in 1..Len(cs_tests) |->
            IF _find_cpp_test_equivalent(cs_tests[k], cpp_tests)
            THEN "converted" ELSE "missing"])

compare_modules(results, neo, cpp) ==
    compare_lists(results,
                  TopDirectories(neo, ConversionLit["src"]),
                  TopDirectories(neo, ConversionLit["tests"]),
                  Subdirs(cpp, ConversionLit["src"]),
                  Subdirs(cpp, ConversionLit["tests"]))

\* _find_all_test_files(<root>/tests): the paths of the UT_*.cs and
\* test_*.cpp files, root being the path the validator was given.
_find_all_test_files(root, files) ==
    LET found == SelectSeq(files, LAMBDA f :
                    /\ f.top = ConversionLit["tests"]
                    /\ \/ StartsWith(f.name, ConversionLit["UT_"])
                          /\ EndsWith(f.name, ConversionLit[".cs"])
                       \/ StartsWith(f.name, ConversionLit["test_"])
                          /\ EndsWith(f.name, ConversionLit[".cpp"]))
    IN  [k \in 1..Len(found) |->
            JoinParts(<<root, ConversionLit["tests"]>> \o found[k].dir \o <<found[k].name>>)]

\* os.path.basename
Basename(path) ==
    IF \E i \in 1..Len(path) : path[i] = "/"
    THEN SubSeq(path, 1 + CHOOSE i \in 1..Len(path) :
                            path[i] = "/" /\ \A j \in (i + 1)..Len(path) : path[j] # "/",
                Len(path))
    ELSE path

RECURSIVE ReplaceFrom(_, _, _, _)
\* str.replace(old, new) from position i on.
ReplaceFrom(s, old, new, i) ==
    IF i > Len(s) THEN <<>>
    ELSE IF IsAt(s, old, i) THEN new \o ReplaceFrom(s, old, new, i + Len(old))
    ELSE <<s[i]>> \o ReplaceFrom(s, old, new, i + 1)

\* _map_cs_test_to_cpp of a file name.
cpp_name_of(filename) ==
    IF StartsWith(filename, ConversionLit["UT_"])
    THEN Lower(ReplaceFrom(ReplaceFrom(filename, ConversionLit["UT_"],
                                       ConversionLit["test_"], 1),
                           ConversionLit[".cs"], ConversionLit[".cpp"], 1))
    ELSE Lower(ReplaceFrom(filename, ConversionLit[".cs"], ConversionLit[".cpp"], 1))

_map_cs_test_to_cpp(cs_test_path) == cpp_name_of(Basename(cs_test_path))

\* analyze_test_coverage: results['files'][...].append(cs_test)
append_files(results, cs_test_files, status) ==
    [results EXCEPT !.files =
        [converted |-> @.converted \o WithStatus(cs_test_files, status, "converted"),
         missing |-> @.missing \o WithStatus(cs_test_files, status, "missing")]]

\* analyze_test_coverage over the test files found.
map_test_files(results, cs_test_files, cpp_test_files) ==
    append_files(results, cs_test_files,
        [k \in 1..Len(cs_test_files) |->
            IF \E n \in 1..Len(cpp_test_files) :
                  Contains(Lower(cpp_test_files[n]),
                           Lower(_map_cs_test_to_cpp(cs_test_files[k])))
            THEN "converted" ELSE "missing"])

analyze_test_coverage(results, neo, cpp) ==
    map_test_files(results,
                   _find_all_test_files(ConversionLit["neo"], neo),
                   _find_all_test_files(ConversionLit["."], cpp))

critical_components ==
    <<ConversionLit["BigDecimal"], ConversionLit["UInt160"], ConversionLit["UInt256"],
      ConversionLit["NeoSystem"], ConversionLit["ProtocolSettings"],
      ConversionLit["Blockchain"], ConversionLit["ApplicationEngine"],
      ConversionLit["ExecutionEngine"], ConversionLit["InteropService"]>>

\* \b at position i of s.
WordBoundary(s, i) ==
    (i > 1 /\ i - 1 <= Len(s) /\ s[i - 1] \in WordChars)
        # (i <= Len(s) /\ s[i] \in WordChars)

\* re.search(rf'\b(class|struct)\s+{component}\b', content, re.IGNORECASE):
\* keyword at i of the lowered content, then whitespace, then the component.
DeclaredAfter(lowered, component_lower, i, keyword) ==
    /\ WordBoundary(lowered, i)
    /\ IsAt(lowered, keyword, i)
    /\ SkipWhitespace(lowered, i + Len(keyword)) > i + Len(keyword)
    /\ IsAt(lowered, component_lower, SkipWhitespace(lowered, i + Len(keyword)))
    /\ WordBoundary(lowered, SkipWhitespace(lowered, i + Len(keyword)) + Len(component_lower))

DeclaresComponent(lowered, component_lower) ==
    \E i \in 1..Len(lowered) :
        \/ DeclaredAfter(lowered, component_lower, i, ConversionLit["class"])
        \/ DeclaredAfter(lowered, component_lower, i, ConversionLit["struct"])

\* _find_component_in_headers
_find_component_in_headers(component, headers) ==
    \E f \in headers :
        /\ EndsWith(f.name, ConversionLit[".h"]) \/ EndsWith(f.name, ConversionLit[".hpp"])
        /\ \/ Contains(Lower(f.name), Lower(component))
           \/ DeclaresComponent(Lower(f.content), Lower(component))

\* check_critical_components: results['critical_missing'] is assigned, not
\* appended to; without an include directory nothing is reported missing.
check_critical_components(results, headers) ==
    [critical_missing |->
        IF headers = {} THEN <<>>
        ELSE SelectSeq(critical_components,
                       LAMBDA c : ~_find_component_in_headers(c, headers))]
        @@ results

\* max(total, 1)
AtLeastOne(total) == IF total > 1 THEN total ELSE 1

\* generate_report: results['summary'] from the lists.
summary_of(modules, tests, files, critical_missing) ==
    [module_conversion_rate |->
        Ratio(100 * Len(modules.converted),
              AtLeastOne(Len(modules.converted) + Len(modules.missing) + Len(modules.partial))),
     test_conversion_rate |->
        Ratio(100 * Len(tests.converted),
              AtLeastOne(Len(tests.converted) + Len(tests.missing))),
     file_conversion_rate |->
        Ratio(100 * Len(files.converted),
              AtLeastOne(Len(files.converted) + Len(files.missing))),
     critical_components_missing |-> Len(critical_missing),
     total_modules |-> Len(modules.converted) + Len(modules.missing) + Len(modules.partial),
     total_tests |-> Len(tests.converted) + Len(tests.missing),
     total_files |-> Len(files.converted) + Len(files.missing)]

with_summary(results) ==
    [results EXCEPT !.summary =
        summary_of(results.modules, results.tests, results.files, results.critical_missing)]

\* ConversionValidator.generate_report on self.results.
Conversion_generate_report(results, neo, cpp) ==
    with_summary(
        check_critical_components(
            analyze_test_coverage(compare_modules(results, neo, cpp), neo, cpp),
            {f \in Range(cpp) : f.top = ConversionLit["include"]}))

\* A file <top>/<dir...>/<name> of a project, with its content.
CvFile(top, dir, name, content) ==
    [top |-> top, dir |-> dir, name |-> name, content |-> content]

\* The files a scan of the C# project may find.
NeoPool ==
    { CvFile(ConversionLit["src"], <<Txt["Neo.Json"]>>, Txt["JArray.cs"], <<>>),
      CvFile(ConversionLit["src"], <<Txt["Neo.VM"]>>, Txt["Script.cs"], <<>>),
      CvFile(ConversionLit["src"], <<Txt["Neo.Ledger"]>>, Txt["Block.cs"], <<>>),
      CvFile(ConversionLit["tests"], <<Txt["Neo.Json.UnitTests"]>>, Txt["UT_JArray.cs"], <<>>),
      CvFile(ConversionLit["tests"], <<Txt["Neo.VM.Tests"]>>, Txt["UT_Script.cs"], <<>>) }

\* The files a scan of the C++ project may find.
CppProjectPool ==
    { CvFile(ConversionLit["src"], <<Txt["json"]>>, Txt["jarray.cpp"], <<>>),
      CvFile(ConversionLit["src"], <<Txt["ledger"]>>, Txt["block.cpp"], <<>>),
      CvFile(ConversionLit["tests"], <<Txt["unit"], Txt["vm"]>>, Txt["test_script.cpp"], <<>>),
      CvFile(ConversionLit["tests"], <<Txt["unit"], Txt["json"]>>, Txt["test_jarray.cpp"], <<>>),
      CvFile(ConversionLit["include"], <<Txt["neo"]>>, Txt["uint160.h"], <<>>),
      CvFile(ConversionLit["include"], <<Txt["neo"]>>, Txt["types.hpp"],
             Txt["struct UInt256 {"]) }

\* How many files of each project a run finds.
MaxProjectFiles == 2

CvStart ==
    /\ cvNeoExists \in BOOLEAN
    /\ cvNeo \in IF cvNeoExists THEN InjectiveSeqs(NeoPool, MaxProjectFiles) ELSE {<<>>}
    /\ cvCpp \in InjectiveSeqs(CppProjectPool, MaxProjectFiles)
    /\ cvPc = "start"
    /\ cvResults = InitialResults
    /\ cvPrinted = NoReport

\* main: validator.print_report(), which calls generate_report; main returns
\* before it when the directory neo does not exist.
PrintReport ==
    /\ cvPc = "start"
    /\ cvNeoExists
    /\ cvResults' = Conversion_generate_report(cvResults, cvNeo, cvCpp)
    /\ cvPrinted' = cvResults'
    /\ cvPc' = "printed"
    /\ UNCHANGED <<cvNeoExists, cvNeo, cvCpp, simVars, normVars, covVars, dupVars, utVars,
                   fnVars, tcVars>>

\* main: results = validator.generate_report(), saved as
\* conversion_validation_report.json.
SaveReport ==
    /\ cvPc = "printed"
    /\ cvResults' = Conversion_generate_report(cvResults, cvNeo, cvCpp)
    /\ cvPc' = "saved"
    /\ UNCHANGED <<cvNeoExists, cvNeo, cvCpp, cvPrinted, simVars, normVars, covVars, dupVars,
                   utVars, fnVars, tcVars>>

CvNext == PrintReport \/ SaveReport

InitCv == CvStart /\ SimIdle /\ NormIdle /\ CovIdle /\ DupIdle /\ UtIdle /\ FnIdle /\ TcIdle

SpecCv == InitCv /\ [][CvNext]_vars
(***************************************************************************)
(* scripts/analyze_test_coverage.py: find_cpp_tests, count_test_cases and  *)
(* analyze_coverage.  A candidate file is tests/<dir...>/<name>, dir the   *)
(* list of the directories between tests and the file.                     *)
(***************************************************************************)

\* The string literals of scripts/analyze_test_coverage.py.
CoverageLit ==
       ("Cryptography" :> <<"C", "r", "y", "p", "t", "o", "g", "r", "a", "p", "h", "y">>)
    @@ ("IO" :> <<"I", "O">>)
    @@ ("Json" :> <<"J", "s", "o", "n">>)
    @@ ("Ledger" :> <<"L", "e", "d", "g", "e", "r">>)
    @@ ("Network" :> <<"N", "e", "t", "w", "o", "r", "k">>)
    @@ ("SmartContract" :> <<"S", "m", "a", "r", "t", "C", "o", "n", "t", "r", "a", "c", "t">>)
    @@ ("SmartContract.Native" :> <<"S", "m", "a", "r", "t", "C", "o", "n", "t", "r", "a", "c", "t", ".", "N", "a", "t", "i", "v", "e">>)
    @@ ("VM" :> <<"V", "M">>)
    @@ ("Wallets" :> <<"W", "a", "l", "l", "e", "t", "s">>)
    @@ ("Persistence" :> <<"P", "e", "r", "s", "i", "s", "t", "e", "n", "c", "e">>)
    @@ ("Consensus" :> <<"C", "o", "n", "s", "e", "n", "s", "u", "s">>)
    @@ ("Extensions" :> <<"E", "x", "t", "e", "n", "s", "i", "o", "n", "s">>)
    @@ ("Plugins" :> <<"P", "l", "u", "g", "i", "n", "s">>)
    @@ ("Core" :> <<"C", "o", "r", "e">>)
    @@ ("native" :> <<"n", "a", "t", "i", "v", "e">>)
    @@ ("smartcontract/native" :> <<"s", "m", "a", "r", "t", "c", "o", "n", "t", "r", "a", "c", "t", "/", "n", "a", "t", "i", "v", "e">>)
    @@ ("test_" :> <<"t", "e", "s", "t", "_">>)
    @@ (".cpp" :> <<".", "c", "p", "p">>)
    @@ ("TEST" :> <<"T", "E", "S", "T">>)
    @@ ("TEST_F" :> <<"T", "E", "S", "T", "_", "F">>)
    @@ ("(" :> <<"(">>)
    @@ ("tests" :> <<"t", "e", "s", "t", "s">>)
    @@ ("unit" :> <<"u", "n", "i", "t">>)
    @@ ("." :> <<".">>)
    @@ ("/" :> <<"/">>)

\* NEO_CS_TEST_CATEGORIES: the categories in the order of the dictionary,
\* each with its expected_count.
NEO_CS_TEST_CATEGORIES ==
    << <<CoverageLit["Cryptography"], 300>>, <<CoverageLit["IO"], 150>>,
       <<CoverageLit["Json"], 80>>, <<CoverageLit["Ledger"], 200>>,
       <<CoverageLit["Network"], 250>>, <<CoverageLit["SmartContract"], 300>>,
       <<CoverageLit["SmartContract.Native"], 250>>, <<CoverageLit["VM"], 400>>,
       <<CoverageLit["Wallets"], 100>>, <<CoverageLit["Persistence"], 120>>,
       <<CoverageLit["Consensus"], 100>>, <<CoverageLit["Extensions"], 80>>,
       <<CoverageLit["Plugins"], 50>>, <<CoverageLit["Core"], 80>> >>

\* test_pattern.match(file): test_(\w+)\.cpp$
test_pattern(file) ==
    /\ StartsWith(file, CoverageLit["test_"])
    /\ WordRunEnd(file, Len(CoverageLit["test_"]) + 1) > Len(CoverageLit["test_"]) + 1
    /\ SubSeq(file, WordRunEnd(file, Len(CoverageLit["test_"]) + 1), Len(file))
          = CoverageLit[".cpp"]

\* Path(root).parts[-1] of the directory that holds a file.
LastDirectory(f) ==
    IF f.dir = <<>> THEN CoverageLit["tests"] ELSE f.dir[Len(f.dir)]

\* find_cpp_tests: the dictionary category -> file names, as the list of its
\* items in insertion order.
Script_find_cpp_tests(files) ==
    LET kept == SelectSeq(files, LAMBDA f : test_pattern(f.name))
        cats == WithoutRepeats([k \in 1..Len(kept) |-> LastDirectory(kept[k])])
    IN  [c \in 1..Len(cats) |->
            [cat |-> cats[c],
             files |-> LET of == SelectSeq(kept, LAMBDA f : LastDirectory(f) = cats[c])
                       IN  [k \in 1..Len(of) |-> of[k].name]]]

\* len(re.findall(macro + r'\s*\(', content))
CountMacro(content, macro) ==
    Cardinality({i \in 1..Len(content) :
        /\ IsAt(content, macro, i)
        /\ SkipWhitespace(content, i + Len(macro)) <= Len(content)
        /\ content[SkipWhitespace(content, i + Len(macro))] = CoverageLit["("][1]})

\* count_test_cases of the file at base_dir/tests/unit/<cat>/<file>: 0 when
\* open() or read() fails, as when no such file exists.
count_test_cases(files, cat, file) ==
    LET at == {f \in Range(files) :
                  f.dir = <<CoverageLit["unit"], cat>> /\ f.name = file /\ f.readable}
    IN  IF at = {} THEN 0
        ELSE CountMacro((CHOOSE f \in at : TRUE).content, CoverageLit["TEST"])
                + CountMacro((CHOOSE f \in at : TRUE).content, CoverageLit["TEST_F"])

\* analyze_coverage: cpp_category of an expected category.
cpp_category_of(category) ==
    IF Contains(ReplaceFrom(Lower(category), CoverageLit["."], CoverageLit["/"], 1),
                CoverageLit["native"])
    THEN CoverageLit["smartcontract/native"]
    ELSE ReplaceFrom(Lower(category), CoverageLit["."], CoverageLit["/"], 1)

\* analyze_coverage: the items of cpp_tests searched for an expected
\* category.
MatchingItems(cpp_category, cpp_tests) ==
    SelectSeq(cpp_tests, LAMBDA item :
        \/ Contains(Lower(item.cat), cpp_category)
        \/ Contains(cpp_category, Lower(item.cat)))

\* analyze_coverage: actual_files and actual_count of the matching items.
actual_of(files, items) ==
    [actual_files |-> Flatten([k \in 1..Len(items) |-> items[k].files]),
     actual_count |->
        SumOver([k \in 1..Len(items) |->
                    SumOver([n \in 1..Len(items[k].files) |->
                                count_test_cases(files, items[k].cat, items[k].files[n])],
                            1..Len(items[k].files))],
                1..Len(items))]

\* analyze_coverage: the totals over the expected categories, given actual_of
\* each.
totals_of(actuals) ==
    [total_expected |->
        SumOver([k \in 1..Len(NEO_CS_TEST_CATEGORIES) |-> NEO_CS_TEST_CATEGORIES[k][2]],
                1..Len(NEO_CS_TEST_CATEGORIES)),
     total_actual |->
        SumOver([k \in 1..Len(actuals) |-> Len(actuals[k].actual_files)], 1..Len(actuals)),
     total_test_cases |->
        SumOver([k \in 1..Len(actuals) |-> actuals[k].actual_count], 1..Len(actuals)),
     missing_categories |->
        LET low == SelectSeq([k \in 1..Len(actuals) |-> k], LAMBDA k :
                      10 * actuals[k].actual_count < 8 * NEO_CS_TEST_CATEGORIES[k][2])
        IN  [j \in 1..Len(low) |->
                <<NEO_CS_TEST_CATEGORIES[low[j]][1],
                  NEO_CS_TEST_CATEGORIES[low[j]][2] - actuals[low[j]].actual_count>>]]

\* analyze_coverage over the items find_cpp_tests returns.
coverage_totals(files, cpp_tests) ==
    totals_of([k \in 1..Len(NEO_CS_TEST_CATEGORIES) |->
                  actual_of(files,
                            MatchingItems(cpp_category_of(NEO_CS_TEST_CATEGORIES[k][1]),
                                          cpp_tests))])

Script_analyze_coverage(files) == coverage_totals(files, Script_find_cpp_tests(files))

\* A file tests/<dir...>/<name> with its content, and whether open()
\* succeeds on it.
TestFile(dir, name, content, readable) ==
    [dir |-> dir, name |-> name, content |-> content, readable |-> readable]

\* The files a walk of base_dir/tests may find.
TestFilePool ==
    { TestFile(<<Txt["unit"], Txt["io"]>>, Txt["test_io.cpp"], Txt["TEST(A, B)"], TRUE),
      TestFile(<<Txt["unit"], Txt["smartcontract"]>>, Txt["test_contract.cpp"],
               Txt["TEST_F(A, B)"], TRUE),
      TestFile(<<Txt["unit"], Txt["smartcontract"], Txt["native"]>>, Txt["test_neo.cpp"],
               Txt["TEST(A, B)"], TRUE),
      TestFile(<<Txt["unit"], Txt["vm"]>>, Txt["test_vm.cpp"],
               Txt["TEST (A, B) TEST(C, D)"], TRUE),
      TestFile(<<Txt["unit"]>>, Txt["test_main.cpp"], Txt["int main()"], TRUE),
      TestFile(<<Txt["unit"], Txt["vm"]>>, Txt["helper.cpp"], Txt["TEST(A, B)"], TRUE) }

\* How many files the walk finds.
MaxTestFiles == 3

TcStart ==
    /\ tcWalk \in InjectiveSeqs(TestFilePool, MaxTestFiles)
    /\ tcPc = "start"
    /\ tcTotals = NoReport

ScriptAnalyzeCoverage ==
    /\ tcPc = "start"
    /\ tcTotals' = Script_analyze_coverage(tcWalk)
    /\ tcPc' = "done"
    /\ UNCHANGED <<tcWalk, simVars, normVars, covVars, dupVars, utVars, fnVars, cvVars>>

InitTc == TcStart /\ SimIdle /\ NormIdle /\ CovIdle /\ DupIdle /\ UtIdle /\ FnIdle /\ CvIdle

SpecTc == InitTc /\ [][ScriptAnalyzeCoverage]_vars
(***************************************************************************)
(* A run of any one of the scripts.                                        *)
(***************************************************************************)

Init == InitSim \/ InitNorm \/ InitCov \/ InitDup \/ InitUt \/ InitFn \/ InitCv \/ InitTc

Next ==
    \/ CalculateSimilarity
    \/ NormalizeOnce
    \/ NormalizeAgain
    \/ AnalyzeCoverage
    \/ DupGenerateReport
    \/ ImplGenerateReport
    \/ RunCoverageCheck
    \/ ExtractFunctions
    \/ PrintReport
    \/ SaveReport
    \/ ScriptAnalyzeCoverage

Spec == Init /\ [][Next]_vars

(***************************************************************************)
(* Claims on calculate_similarity.                                         *)
(***************************************************************************)

\* The token sets the claims speak of: the whitespace-delimited tokens of the
\* comment-stripped contents.
Tokens1 == TokenSet(remove_comments(content1))
Tokens2 == TokenSet(remove_comments(content2))

Jaccard(T1, T2) ==
    IF T1 \cup T2 = {} THEN Zero
    ELSE Ratio(Cardinality(T1 \cap T2), Cardinality(T1 \cup T2))

\* C2: the similarity returned is |T1 \cap T2| / |T1 \cup T2| over the sets of
\* whitespace-delimited tokens of the comment-stripped contents.
C2_SimilarityIsJaccard ==
    simPc = "done" => RatEq(simResult, Jaccard(Tokens1, Tokens2))

\* C6: the similarity is symmetric, is 1 for a content against itself when its
\* token set is not empty, is 0 when both token sets are empty, and lies in
\* [0, 1].
C6_SimilaritySymmetric ==
    simPc = "done" =>
        /\ RatEq(simResult, calculate_similarity(content2, content1))
        /\ (content1 = content2 /\ Tokens1 # {} => RatEq(simResult, Ratio(1, 1)))
        /\ (Tokens1 = {} /\ Tokens2 = {} => RatEq(simResult, Zero))
        /\ simResult.den > 0
        /\ 0 <= simResult.num
        /\ simResult.num <= simResult.den

\* C6 witness: a content that holds a comment and a token, compared with
\* itself, scores 1.
C6_Witness ==
    /\ simPc = "done"
    /\ content1 = content2
    /\ Tokens1 # {}
    /\ remove_comments(content1) # content1
    /\ RatEq(simResult, Ratio(1, 1))

(***************************************************************************)
(* Claims on the normalizations.                                           *)
(***************************************************************************)

\* C3: the base-name normalization of both duplicate checkers is idempotent:
\* applied to its own output it returns that output.
C3_BaseNameIdempotent ==
    normPc = "twice" /\ normKind \in FileKinds => normTwice = normOnce

\* C4: the test-name normalizations n (_tests_equivalent) and c
\* (map_test_names) are idempotent.
C4_TestNameIdempotent ==
    normPc = "twice" /\ normKind \in TestKinds => normTwice = normOnce

(***************************************************************************)
(* Claims on analyze_coverage.                                             *)
(***************************************************************************)

\* The reference tests of a category, counted from the files walked: the
\* methods of every selected file whose path falls in the category.
RefCount(c) ==
    LET n == [i \in 1..Len(csWalk) |->
                IF /\ CsSelected(csWalk[i])
                   /\ _get_category(PathJoin(csWalk[i].root, csWalk[i].name)) = c
                THEN Len(csWalk[i].methods) ELSE 0]
    IN  SumOver(n, 1..Len(csWalk))

RefTotal ==
    SumOver([i \in 1..Len(csWalk) |->
                IF CsSelected(csWalk[i]) THEN Len(csWalk[i].methods) ELSE 0],
            1..Len(csWalk))

\* C1: for every category of the result covered + missing == cs_tests, the
\* number of reference tests of the category; missing_tests[category] has
\* `missing` entries, and there is no such entry exactly when missing == 0.
C1_CoveragePartition ==
    covPc = "done" =>
        \A c \in DOMAIN analysis.categories :
            LET cat == analysis.categories[c]
            IN  /\ cat.covered + cat.missing = cat.cs_tests
                /\ cat.cs_tests = RefCount(c)
                /\ (c \in DOMAIN analysis.missing_tests =>
                        Len(analysis.missing_tests[c]) = cat.missing)
                /\ (c \notin DOMAIN analysis.missing_tests <=> cat.missing = 0)

\* C1 witness: a category with covered and missing tests, a missing name
\* listed twice.
C1_Witness ==
    /\ covPc = "done"
    /\ \E c \in DOMAIN analysis.missing_tests :
        /\ analysis.categories[c].covered > 0
        /\ analysis.categories[c].missing > 1
        /\ \E i, j \in 1..Len(analysis.missing_tests[c]) :
            i # j /\ analysis.missing_tests[c][i] = analysis.missing_tests[c][j]

\* C8: analyze_coverage never raises a division error; a category without
\* reference tests is reported with coverage 100, and a run on a reference
\* corpus without tests returns a report.
C8_ZeroGuard ==
    /\ analysis # Raised
    /\ covPc = "done" =>
        /\ analysis # Raised
        /\ DOMAIN analysis.categories =
              DOMAIN find_cs_tests(csWalk) \cup DOMAIN find_cpp_tests(cppWalk)
        /\ \A c \in DOMAIN analysis.categories :
              RefCount(c) = 0 => analysis.categories[c].coverage = Ratio(100, 1)

\* C8 witness: a run over a reference corpus without tests, a category
\* found only in the candidate corpus.
C8_Witness ==
    /\ covPc = "done"
    /\ RefTotal = 0
    /\ \E c \in DOMAIN analysis.categories :
        /\ analysis.categories[c].cs_tests = 0
        /\ analysis.categories[c].cpp_tests > 0
        /\ analysis.categories[c].coverage = Ratio(100, 1)

\* C9: overall coverage is 100 * (sum of covered) / (total reference tests),
\* lies in [0, 100], and is 100, the value of an empty category, when the
\* reference corpus has no tests.
C9_OverallCoverage ==
    covPc = "done" =>
        LET cats == analysis.categories
            covered == SumOver([c \in DOMAIN cats |-> cats[c].covered], DOMAIN cats)
            pct == analysis.coverage_percentage
        IN  /\ RefTotal > 0 => RatEq(pct, Ratio(100 * covered, RefTotal))
            /\ RatLeq(Zero, pct) /\ RatLeq(pct, Ratio(100, 1))
            /\ RefTotal = 0 => RatEq(pct, Ratio(100, 1))

(***************************************************************************)
(* Claims on the duplicate checkers.                                       *)
(***************************************************************************)

\* How many places of the groups hold a path.
Occurrences(groups, path, PathOf(_)) ==
    Cardinality({kn \in UNION {{<<k, n>> : n \in 1..Len(groups[k].files)} :
                                k \in 1..Len(groups)} :
                    PathOf(groups[kn[1]].files[kn[2]]) = path})

\* C5: every group of both checkers has at least 2 members, no enumerated
\* file is a member of two groups (or twice of one), and the summary counts
\* are the number of groups and the sum of their sizes.
C5_GroupsMinimalDisjoint ==
    /\ dupPc = "done" =>
        LET groups == dupReport.similar_filenames
        IN  /\ \A k \in 1..Len(groups) : Len(groups[k].files) >= 2
            /\ \A f \in Range(walk) :
                  Occurrences(groups, PathStr(f), LAMBDA p : p) <= 1
            /\ dupReport.summary.similar_filename_groups = Len(groups)
    /\ implPc = "done" =>
        LET groups == implReport.duplicates
        IN  /\ \A k \in 1..Len(groups) : Len(groups[k].files) >= 2
            /\ \A f \in Range(walk) :
                  Occurrences(groups, PathStr(f), LAMBDA e : e.path) <= 1
            /\ implReport.summary.total_duplicate_groups = Len(groups)
            /\ implReport.summary.total_duplicate_files =
                  SumOver([k \in 1..Len(groups) |-> Len(groups[k].files)],
                          1..Len(groups))

\* C5 witness: both checkers report two groups over four files.
C5_Witness ==
    /\ dupPc = "done"
    /\ implPc = "done"
    /\ Len(dupReport.similar_filenames) = 2
    /\ Len(implReport.duplicates) = 2
    /\ implReport.summary.total_duplicate_files = 4

\* The order sorted() gives a walk of test files, and the manifests.
TestFileLess(f, g) ==
    StrLess(f.root, g.root) \/ (f.root = g.root /\ StrLess(f.name, g.name))
ManifestLess(m, n) == StrLess(m.dir, n.dir)

\* C7: the report is a function of the set of files and their contents: in
\* whatever order the file system yields the files, each tool returns the
\* report it returns when the files are yielded in sorted order.
C7_OrderIndependent ==
    /\ dupPc = "done" =>
        dupReport = Dup_generate_report(SortSeq(walk, PathLess),
                                        SortSeq(manifests, ManifestLess))
    /\ implPc = "done" =>
        implReport = Impl_generate_report(SortSeq(walk, PathLess),
                                          SortSeq(manifests, ManifestLess))
    /\ covPc = "done" =>
        analysis = analyze_coverage(SortSeq(csWalk, TestFileLess),
                                    SortSeq(cppWalk, TestFileLess))

\* C10: rule 1 of canonical selection decides only for a group with exactly
\* one undecorated member; with several undecorated members and a member
\* referenced by the build manifest, likely_main_file is a referenced member.
C10_CanonicalRuleOne ==
    implPc = "done" =>
        \A k \in 1..Len(implReport.duplicates) :
            LET g == implReport.duplicates[k]
                undecorated == {i \in 1..Len(g.files) : Undecorated(g.files[i].name)}
                referenced == {i \in 1..Len(g.files) : g.files[i].cmake_usage # <<>>}
            IN  /\ Cardinality(undecorated) = 1 =>
                    \E i \in undecorated : g.likely_main_file = g.files[i].name
                /\ Cardinality(undecorated) > 1 /\ referenced # {} =>
                    \E i \in referenced : g.likely_main_file = g.files[i].name

(***************************************************************************)
(* Claims on canonical selection and on the recommendations of             *)
(* ImplementationDuplicateChecker.generate_report.                         *)
(***************************************************************************)

\* The members of a reported group, by position.
Members(g) == 1..Len(g.files)
UndecoratedMembers(g) == {i \in Members(g) : Undecorated(g.files[i].name)}
ReferencedMembers(g) == {i \in Members(g) : g.files[i].cmake_usage # <<>>}

\* The size of a member's set of extracted function names.
FunctionCount(g, i) == Cardinality(Range(g.files[i].functions))

\* The members whose function-name set is the largest of the group.
LargestMembers(g) ==
    {i \in Members(g) : \A j \in Members(g) : FunctionCount(g, j) <= FunctionCount(g, i)}

\* C11: in a group with no undecorated member and no member referenced by a
\* build manifest, likely_main_file is the member with the largest set of
\* extracted function names.
C11_LargestFunctionSet ==
    implPc = "done" =>
        \A k \in 1..Len(implReport.duplicates) :
            LET g == implReport.duplicates[k]
            IN  /\ UndecoratedMembers(g) = {}
                /\ ReferencedMembers(g) = {}
                /\ Cardinality(LargestMembers(g)) = 1
                => \E i \in LargestMembers(g) : g.likely_main_file = g.files[i].name

\* C12: when none of the three rules singles out one member of a group (not
\* exactly one undecorated member, not exactly one referenced member, not
\* exactly one member with the largest function-name set), likely_main_file
\* is left unresolved: no member is picked by its position in the list.
C12_TiesUnresolved ==
    implPc = "done" =>
        \A k \in 1..Len(implReport.duplicates) :
            LET g == implReport.duplicates[k]
            IN  /\ Cardinality(UndecoratedMembers(g)) # 1
                /\ Cardinality(ReferencedMembers(g)) # 1
                /\ Cardinality(LargestMembers(g)) # 1
                => g.likely_main_file = None

\* The paths a group's recommendations of a kind name.
Recommended(g, kind) ==
    {g.recommendations[n].path :
        n \in {m \in 1..Len(g.recommendations) : g.recommendations[m].kind = kind}}

\* C13: for widget.cpp, widget_complete.cpp and widget_minimal.cpp, of which
\* the build manifests reference only widget_complete.cpp, the report has one
\* group, 'widget', of 3 members, its likely_main_file is widget_complete.cpp
\* and the other two members are recommended for removal.
C13_WidgetScenario ==
    LET complete == Txt["widget_complete"] \o Lit[".cpp"]
    IN  /\ implPc = "done"
        /\ Len(walk) = 3
        /\ {FileName(f) : f \in Range(walk)} =
              {Txt["widget"] \o Lit[".cpp"], complete, Txt["widget_minimal"] \o Lit[".cpp"]}
        /\ \A f \in Range(walk) :
              Impl_check_cmake_usage(f, manifests) # <<>> <=> FileName(f) = complete
        => /\ Len(implReport.duplicates) = 1
           /\ implReport.duplicates[1].base_name = Txt["widget"]
           /\ Len(implReport.duplicates[1].files) = 3
           /\ implReport.duplicates[1].likely_main_file = complete
           /\ Recommended(implReport.duplicates[1], "remove") =
                 {PathStr(f) : f \in {h \in Range(walk) : FileName(h) # complete}}

\* C14: in every group the members recommended for removal are exactly the
\* members that have no build reference and are not the canonical file, and
\* the canonical file is at most one member of the group.
C14_RemovalsExact ==
    implPc = "done" =>
        \A k \in 1..Len(implReport.duplicates) :
            LET g == implReport.duplicates[k]
            IN  \E canonical \in SUBSET {i \in Members(g) :
                                            g.files[i].name = g.likely_main_file} :
                    /\ Cardinality(canonical) <= 1
                    /\ Recommended(g, "remove") =
                          {g.files[i].path :
                              i \in (Members(g) \ ReferencedMembers(g)) \ canonical}

\* A stub marker: 'throw', later 'not', later 'implemented'.
HasStubMarker(content) ==
    \E i, j, k \in 1..Len(content) :
        /\ IsAt(Lower(content), Lit["throw"], i)
        /\ i + Len(Lit["throw"]) <= j
        /\ IsAt(Lower(content), Lit["not"], j)
        /\ j + Len(Lit["not"]) <= k
        /\ IsAt(Lower(content), Lit["implemented"], k)

\* The file of the walk behind a reported path.
FileAt(path) == CHOOSE f \in Range(walk) : PathStr(f) = path

\* C15: every group member whose content holds a stub marker has
\* has_not_implemented set and is listed in its group's recommendations as a
\* completion candidate.
C15_StubsListed ==
    implPc = "done" =>
        \A k \in 1..Len(implReport.duplicates) :
            LET g == implReport.duplicates[k]
            IN  \A i \in Members(g) :
                    /\ FileAt(g.files[i].path).readable
                    /\ HasStubMarker(FileAt(g.files[i].path).content)
                    => /\ g.files[i].has_not_implemented
                       /\ g.files[i].path \in Recommended(g, "complete")

(***************************************************************************)
(* Claims on the build manifests.                                         *)
(***************************************************************************)

\* The file-name tokens of the build manifests that can be read: the
\* whitespace-delimited words of their text.
ManifestTokens ==
    UNION {TokenSet(manifests[k].content) :
              k \in {n \in 1..Len(manifests) : manifests[n].readable}}

\* The paths DuplicateChecker recommends for removal.
DupRemovals ==
    {dupReport.recommendations[n].path : n \in 1..Len(dupReport.recommendations)}

\* The member paths of DuplicateChecker's groups.
DupMembers ==
    UNION {Range(dupReport.similar_filenames[k].files) :
              k \in 1..Len(dupReport.similar_filenames)}

\* C16, ImplementationDuplicateChecker: a member has a build reference if and
\* only if a token of a manifest equals its file name.
C16_ImplActiveIffNamed ==
    implPc = "done" =>
        \A k \in 1..Len(implReport.duplicates) :
            \A i \in Members(implReport.duplicates[k]) :
                implReport.duplicates[k].files[i].cmake_usage # <<>>
                    <=> implReport.duplicates[k].files[i].name \in ManifestTokens

\* C16, DuplicateChecker: a group member is reported unused if and only if no
\* token of a manifest equals its file name.
C16_DupActiveIffNamed ==
    dupPc = "done" =>
        \A p \in DupMembers :
            p \in DupRemovals <=> FileName(FileAt(p)) \notin ManifestTokens

\* C16: a file is classified as build-referenced if and only if one of the
\* file-name tokens of the build manifests equals the file's name, in both
\* checkers.
C16_ActiveIffNamed == C16_ImplActiveIffNamed /\ C16_DupActiveIffNamed

\* C17: when no build manifest can be read (there is none, or read_text
\* fails on each), the run completes and no file is reported unused or
\* recommended for removal for want of a reference.
C17_NoManifestNoRemoval ==
    (\A k \in 1..Len(manifests) : ~manifests[k].readable) =>
        /\ implPc = "done" =>
              \A k \in 1..Len(implReport.duplicates) :
                  Recommended(implReport.duplicates[k], "remove") = {}
        /\ dupPc = "done" => DupRemovals = {}

(***************************************************************************)
(* Claims on errors and on matching across categories.                     *)
(***************************************************************************)

\* The files of a walk on which a read succeeds.
Readable(files) == SelectSeq(files, LAMBDA f : f.readable)

\* C18: a read error on a single file never aborts a run: the coverage
\* analysis returns the report of the files that can be read, and the
\* implementation-duplicate report marks exactly the files that cannot.
C18_ReadErrorSkipped ==
    /\ covPc \in {"done", "raised"} =>
          analysis = analyze_coverage(Readable(csWalk), Readable(cppWalk))
    /\ implPc = "done" =>
          \A k \in 1..Len(implReport.duplicates) :
              \A i \in Members(implReport.duplicates[k]) :
                  implReport.duplicates[k].files[i].error
                      <=> ~FileAt(implReport.duplicates[k].files[i].path).readable

\* C19: a corpus root that does not exist ends the run with an error: the
\* coverage analysis and the duplicate check return no report for it.
C19_MissingRootFails ==
    /\ covPc = "done" => cs_exists
    /\ dupPc = "done" => src_exists

\* Every candidate test the analyzer found, of whatever category.
AllCandidateTests ==
    LET cpp == find_cpp_tests(cppWalk)
        cats == SortSeq(CHOOSE s \in [1..Cardinality(DOMAIN cpp) -> DOMAIN cpp] :
                            Range(s) = DOMAIN cpp,
                        LAMBDA a, b : a = b)
    IN  Flatten([k \in 1..Len(cats) |-> cpp[cats[k]]])

\* C20: a reference test is listed as missing only when no candidate test of
\* the candidate corpus, in whatever category, matches it by name.
C20_MissingMeansNoMatchAnywhere ==
    covPc = "done" =>
        \A c \in DOMAIN analysis.missing_tests :
            \A n \in 1..Len(analysis.missing_tests[c]) :
                map_test_names(analysis.missing_tests[c][n], AllCandidateTests) = <<>>

\* The reference tests the analyzer found in a category.
ReferenceTests(c) == Range(GetOrEmpty(find_cs_tests(csWalk), c))

\* The case names of the candidate tests the analyzer found in a category.
CandidateCases(c) ==
    UNION {{f.cases[k][2] : k \in 1..Len(f.cases)} :
              f \in {g \in Range(cppWalk) :
                        CppSelected(g) /\ _get_category(PathJoin(g.root, g.name)) = c}}

\* The reference tests reported as missing in a category.
MissingIn(c) == Range(GetOrEmpty(analysis.missing_tests, c))

\* C21: a reference test is matched by a candidate case of its category
\* whenever, with the filler tokens stripped from both names, one name is a
\* substring of the other.
C21_SubstringEitherWay ==
    covPc = "done" =>
        \A c \in DOMAIN analysis.categories :
            \A t \in ReferenceTests(c) : \A x \in CandidateCases(c) :
                /\ cs_clean_of(t) # <<>>
                /\ cs_clean_of(x) # <<>>
                /\ \/ Contains(cs_clean_of(x), cs_clean_of(t))
                   \/ Contains(cs_clean_of(t), cs_clean_of(x))
                => t \notin MissingIn(c)

\* C22: a reference test named "Test" + X is matched by a candidate case X
\* of its category, whatever letters X holds.
C22_TestPrefixMatches ==
    covPc = "done" =>
        \A c \in DOMAIN analysis.categories :
            \A t \in ReferenceTests(c) : \A x \in CandidateCases(c) :
                t = Lit["Test"] \o x => t \notin MissingIn(c)

\* The pairs of a name group that content_similarity reports.
ReportedPairs(base_name) ==
    UNION {{<<r.similarities[n].file1, r.similarities[n].file2>> :
               n \in 1..Len(r.similarities)} :
              r \in {q \in Range(dupReport.content_similarity) : q.base_name = base_name}}

WithoutEquivalent(m, cpp_modules) ==
    IF cpp_equivalent(m, cpp_modules) = 0 THEN m.test_methods
    ELSE missing_in_module(m, cpp_modules[cpp_equivalent(m, cpp_modules)])

\* How many reference tests of the run have no equivalent candidate test.
MissingReferenceTests ==
    LET cs == find_csharp_test_files(utProjects)
        cpp == find_cpp_test_files(utFiles)
    IN  SumOver([k \in 1..Len(cs) |-> Cardinality(WithoutEquivalent(cs[k], cpp))],
                1..Len(cs))

\* C24: the coverage figure of run_coverage_check is 100 times the share of
\* the reference tests that have an equivalent candidate test, and
\* missing_count is the number of reference tests that have none.
C24_CoverageFromPartition ==
    utPc = "done" /\ utResults.coverage_summary.total_csharp_tests > 0 =>
        LET summary == utResults.coverage_summary
        IN  /\ summary.missing_count = MissingReferenceTests
            /\ RatEq(summary.coverage_percentage,
                     Ratio(100 * (summary.total_csharp_tests - MissingReferenceTests),
                           summary.total_csharp_tests))


\* C25: no control-flow keyword (if, for, while, switch, catch) is in a set
\* of extracted function names: not in what DuplicateChecker.extract_functions
\* returns, not in the functions of analyze_file_contents, and so not among
\* the duplicate functions of find_duplicate_implementations.
C25_NoControlKeywords ==
    fnPc = "done" =>
        /\ \A k \in 1..Len(fnWalk) :
              /\ fnFunctions[k] \cap control_keywords = {}
              /\ Range(fnNames[k]) \cap control_keywords = {}
        /\ fnDuplicates \cap control_keywords = {}

\* C25, the part that holds: the functions of analyze_file_contents name no
\* control-flow keyword.
C25_ImplNamesNoKeywords ==
    fnPc = "done" =>
        \A k \in 1..Len(fnWalk) : Range(fnNames[k]) \cap control_keywords = {}

\* C25: analyze_file_contents has dropped a keyword that func_pattern matched.
C25_ImplWitness ==
    /\ fnPc = "done"
    /\ \E k \in 1..Len(fnWalk) :
          /\ Lit["if"] \in Range(FuncMatches(fnWalk[k], 1))
          /\ Lit["if"] \notin Range(fnNames[k])

\* The file lies in no build-output or test directory below the project
\* root: no directory of its path from the project root on is named after
\* build or test.
OutsideBuildAndTestDirs(f) ==
    /\ ~Contains(f.root, Lit["build"]) /\ ~Contains(f.root, Lit["test"])
    /\ ~Contains(f.dir, Lit["build"]) /\ ~Contains(f.dir, Lit["test"])

\* The files of the walk that find_all_cpp_files may exclude only for their
\* directory: the .cpp, .h and .hpp files under src and include.
AllowedFiles ==
    {f \in Range(walk) : /\ f.root \in {Lit["src"], Lit["include"]}
                         /\ f.ext \in {Lit[".cpp"], Lit[".h"], Lit[".hpp"]}}

\* The groups find_implementation_files builds when only the directory of a
\* file excludes it.
GroupsOutsideDirs ==
    LET kept == SelectSeq(Rglob(walk, Lit["src"], Lit[".cpp"]), OutsideBuildAndTestDirs)
    IN  SelectSeq(GroupBy(kept, [i \in 1..Len(kept) |-> impl_base_name(kept[i].stem)]),
                  LAMBDA g : Len(g.files) > 1)

\* C26: find_all_cpp_files and find_implementation_files leave out a file
\* only because it lies in a build-output or test directory: every file with
\* an allowed extension outside such directories is enumerated, whatever
\* its own name and whatever the project root.
C26_OnlyDirectoriesExclude ==
    /\ dupPc = "done" =>
          dupReport.summary.total_files
              = Cardinality({f \in AllowedFiles : OutsideBuildAndTestDirs(f)})
    /\ implPc = "done" =>
          implReport.summary.total_duplicate_files
              = SumOver([k \in 1..Len(GroupsOutsideDirs) |-> Len(GroupsOutsideDirs[k].files)],
                        1..Len(GroupsOutsideDirs))

\* C27: in every group of ImplementationDuplicateChecker.generate_report and
\* of DuplicateChecker.generate_report at least one member is not recommended
\* for removal, also when no member is undecorated and none is referenced by
\* a build manifest.
C27_OneMemberKept ==
    /\ implPc = "done" =>
          \A g \in Range(implReport.duplicates) :
              \E f \in Range(g.files) :
                  [kind |-> "remove", path |-> f.path] \notin Range(g.recommendations)
    /\ dupPc = "done" =>
          \A g \in Range(dupReport.similar_filenames) :
              \E path \in Range(g.files) :
                  [kind |-> "remove", path |-> path] \notin Range(dupReport.recommendations)

\* C28: ConversionValidator.generate_report can be called again and returns
\* the same results: after the second call, the one whose results main
\* saves, the lists and the totals equal those of the first call and no
\* entry is listed twice.
C28_SecondCallSame ==
    cvPc = "saved" =>
        /\ cvResults.modules = cvPrinted.modules
        /\ cvResults.tests = cvPrinted.tests
        /\ cvResults.files = cvPrinted.files
        /\ cvResults.critical_missing = cvPrinted.critical_missing
        /\ cvResults.summary.total_modules = cvPrinted.summary.total_modules
        /\ cvResults.summary.total_tests = cvPrinted.summary.total_tests
        /\ cvResults.summary.total_files = cvPrinted.summary.total_files
        /\ RatEq(cvResults.summary.module_conversion_rate,
                 cvPrinted.summary.module_conversion_rate)
        /\ RatEq(cvResults.summary.test_conversion_rate,
                 cvPrinted.summary.test_conversion_rate)
        /\ RatEq(cvResults.summary.file_conversion_rate,
                 cvPrinted.summary.file_conversion_rate)

\* C29: _get_category assigns a file the category of the keyword of the
\* directory that holds it, whatever the file name and whatever letters the
\* other parts of the path hold: the tests of every reference file are
\* counted under the category its directory name alone is classified as.
C29_CategoryOfDirectory ==
    covPc = "done" =>
        \A f \in Range(csWalk) :
            CsSelected(f) /\ f.methods # <<>> =>
                _get_category(Basename(f.root)) \in DOMAIN analysis.categories

\* The candidate test files find_cpp_tests discovers.
DiscoveredFiles == SelectSeq(tcWalk, LAMBDA f : test_pattern(f.name))

\* The TEST and TEST_F cases of a discovered file.
CasesOf(f) ==
    IF f.readable
    THEN CountMacro(f.content, CoverageLit["TEST"]) + CountMacro(f.content, CoverageLit["TEST_F"])
    ELSE 0

\* C30: in analyze_coverage of scripts/analyze_test_coverage.py each
\* candidate test file contributes to at most one expected category, so
\* total_actual is the number of discovered files and total_test_cases the
\* number of their TEST and TEST_F cases.
C30_EachFileOnce ==
    tcPc = "done" =>
        /\ tcTotals.total_actual = Len(DiscoveredFiles)
        /\ tcTotals.total_test_cases
              = SumOver([k \in 1..Len(DiscoveredFiles) |-> CasesOf(DiscoveredFiles[k])],
                        1..Len(DiscoveredFiles))
====
